---- MODULE Spec2Model ----
(***************************************************************************)
(* A model of ccq (cc-query): session discovery (session_loader.rs), the   *)
(* session facade (query_session.rs), the process entry point (main.rs)    *)
(* and the interactive and piped statement loops (repl.rs).                *)
(*                                                                         *)
(* Text is a sequence of one-character strings.  A PathBuf is a sequence   *)
(* of components (absolute, the leading "/" implied); PathStr renders it.  *)
(* An Option is a sequence of length 0 (None) or 1 (Some).                 *)
(***************************************************************************)
EXTENDS Integers, Sequences, FiniteSets, TLC

VARIABLES
    fs,             \* the file tree: a set of [path, isFile]
    home,           \* Option: dirs::home_dir()
    env_project,    \* Option: the CLAUDE_PROJECT_DIR environment variable
    project_path,   \* Option: Cli::project_path (text as typed)
    session_filter, \* Option: Cli::session
    data_dir,       \* Option: Cli::data_dir (a path)
    pc,             \* position of the process
    phase,          \* state of the facade
    info,           \* Option: QuerySession::info
    err,            \* Option: the Error that run() returned
    exit_code,      \* Option: the ExitCode of main
    view_batches,   \* number of executions of the view-definition batch
    multiline_buffer, \* run_repl_loop: the pending statement
    input_lines,    \* the lines readline has returned so far
    statements,     \* run_piped: the statements split from stdin
    stmt_idx,       \* run_piped: index of the next statement
    is_first,       \* run_piped: no statement has succeeded yet
    dispatched,     \* the calls of query and query_tsv_streaming, in order
    stdout,         \* what was written to standard output, in order
    stderr,         \* what was written to standard error, in order
    sink_errors,    \* number of failed writes and flushes of the piped writer
    view_sql,       \* the statements of the view batch that was executed
    unwalked,       \* all-projects walk: project directories not yet walked
    partials,       \* all-projects walk: the partial results not yet combined
    store,          \* the messages the ingestion views yield
    view_rows,      \* Option: the rows a view over the store returned
    result_set,     \* the rows the engine yields for one statement
    tsv,            \* Option: to_tsv() of the result of query
    written,        \* Option: text and count of query_tsv_streaming
    prompts,        \* run_repl_loop: the prompts readline was called with
    stored,         \* Option: a ValueRef::Timestamp(unit, value) of a result
    shown           \* Option: what Display wrote for the stored value

discoveryVars == <<fs, home, env_project, project_path, session_filter, data_dir>>
loopVars == <<multiline_buffer, input_lines, statements, stmt_idx, is_first,
              dispatched, stdout, stderr, sink_errors, prompts>>
parVars == <<unwalked, partials>>
engineVars == <<store, view_rows, result_set, tsv, written, stored, shown>>
vars == <<fs, home, env_project, project_path, session_filter, data_dir,
          pc, phase, info, err, exit_code, view_batches,
          multiline_buffer, input_lines, statements, stmt_idx, is_first,
          dispatched, stdout, stderr, sink_errors,
          view_sql, unwalked, partials, store, view_rows, result_set, tsv, written,
          prompts, stored, shown>>

----------------------------------------------------------------------------
(* Bounds of the model *)

MaxFiles == 3
MaxLines == 3
MaxPieces == 2
MaxRows == 1
MaxBlocks == 2
MaxPartials == 3
MaxCols == 2
MaxTsvRows == 2

----------------------------------------------------------------------------
(* Options and text *)

None == <<>>
Some(x) == <<x>>
IsSome(o) == Len(o) = 1

StartsWith(s, p) == Len(p) <= Len(s) /\ SubSeq(s, 1, Len(p)) = p
EndsWith(s, p) == Len(p) <= Len(s) /\ SubSeq(s, Len(s) - Len(p) + 1, Len(s)) = p

\* A byte that is not valid UTF-8, and what to_string_lossy puts in its place.
BAD_BYTE == "\\xFF"
REPLACEMENT == "\\uFFFD"
to_str(name) == IF \E i \in 1..Len(name) : name[i] = BAD_BYTE THEN None ELSE Some(name)
to_string_lossy(name) == [i \in 1..Len(name) |-> IF name[i] = BAD_BYTE THEN REPLACEMENT ELSE name[i]]

JSONL_EXT == <<".", "j", "s", "o", "n", "l">>
AGENT_PREFIX == <<"a", "g", "e", "n", "t", "-">>
SUBAGENTS == <<"s", "u", "b", "a", "g", "e", "n", "t", "s">>
STAR == <<"*">>
STARSTAR == <<"*", "*">>

RECURSIVE PathStr(_)
PathStr(p) == IF p = <<>> THEN <<>> ELSE <<"/">> \o to_string_lossy(p[1]) \o PathStr(Tail(p))

IsPrefix(d, p) == Len(d) <= Len(p) /\ SubSeq(p, 1, Len(d)) = d
exists(d) == \E e \in fs : IsPrefix(d, e.path)
file_name(p) == IF p = <<>> THEN None ELSE Some(p[Len(p)])
parent(p) == IF p = <<>> THEN None ELSE Some(SubSeq(p, 1, Len(p) - 1))

----------------------------------------------------------------------------
(* utils.rs *)

claude_projects_base == home[1] \o << <<".", "c", "l", "a", "u", "d", "e">>,
                                      <<"p", "r", "o", "j", "e", "c", "t", "s">> >>

CWD == <<"/", "c">>

\* Text of the resolved project path; needs_home tells whether home_dir() is
\* unwrapped on the way.
tilde_expanded(path) ==
    IF StartsWith(path, <<"~", "/">>)
    THEN PathStr(home[1]) \o <<"/">> \o SubSeq(path, 3, Len(path))
    ELSE IF path = <<"~">> THEN PathStr(home[1]) ELSE path

resolve_project_path(path) ==
    LET resolved == tilde_expanded(path)
    IN  IF StartsWith(resolved, <<"/">>)
        THEN resolved
        ELSE (IF IsSome(env_project) THEN env_project[1] ELSE CWD) \o <<"/">> \o resolved

get_project_slug(text) ==
    [i \in 1..Len(text) |-> IF text[i] \in {"/", "."} THEN "-" ELSE text[i]]

resolve_project_dir(path) ==
    claude_projects_base \o <<get_project_slug(resolve_project_path(path))>>

\* The calls of expect() on home_dir(): which inputs panic.
needs_home_for_path(path) == StartsWith(path, <<"~", "/">>) \/ path = <<"~">>

----------------------------------------------------------------------------
(* session_loader.rs *)

Single(g) == [tag |-> "Single", globs |-> <<g>>]
Multiple(gs) == [tag |-> "Multiple", globs |-> gs]
EMPTY_GLOB == <<>>

SessionInfo(s, a, p, fp) ==
    [session_count |-> s, agent_count |-> a, project_count |-> p, file_pattern |-> fp]

is_subagent_path(path) == \E i \in 1..(Len(path) - 1) : to_string_lossy(path[i]) = SUBAGENTS

\* Faulty variant: the filter is compared with the agent file's own name.
session_dir_own_name(path) == to_str(path[Len(path)])

\* path.parent().parent().file_name().to_str()
session_dir(path) ==
    IF Len(path) >= 3 THEN to_str(path[Len(path) - 2]) ELSE None

\* Faulty variant: is_some_and in place of is_none_or: without a filter no session
\* is counted.
file_class_is_some_and(e, filter) ==
    LET path == e.path
        base == path[Len(path)]
    IN  IF ~e.isFile THEN "skipped"
        ELSE IF ~EndsWith(to_string_lossy(base), JSONL_EXT) THEN "skipped"
        ELSE IF to_str(base) = None THEN "other"
        ELSE IF is_subagent_path(path) /\ StartsWith(base, AGENT_PREFIX)
             THEN IF IsSome(filter)
                  THEN IF session_dir(path) = None THEN "other"
                       ELSE IF StartsWith(session_dir(path)[1], filter[1]) THEN "agent"
                       ELSE "other"
                  ELSE "agent"
        ELSE IF /\ ~StartsWith(base, AGENT_PREFIX)
                /\ ~is_subagent_path(path)
                /\ (IsSome(filter) /\ StartsWith(base, filter[1]))
             THEN "session"
        ELSE "other"

\* What one iteration of the walk does with an entry: "skipped" (not a
\* regular .jsonl file), "other" (total_jsonl only), "session" or "agent".
file_class(e, filter) ==
    LET path == e.path
        base == path[Len(path)]
    IN  IF ~e.isFile THEN "skipped"
        ELSE IF ~EndsWith(to_string_lossy(base), JSONL_EXT) THEN "skipped"
        ELSE IF to_str(base) = None THEN "other"
        ELSE IF is_subagent_path(path) /\ StartsWith(base, AGENT_PREFIX)
             THEN IF IsSome(filter)
                  THEN IF session_dir(path) = None THEN "other"
                       ELSE IF StartsWith(session_dir(path)[1], filter[1]) THEN "agent"
                       ELSE "other"
                  ELSE "agent"
        ELSE IF /\ ~StartsWith(base, AGENT_PREFIX)
                /\ ~is_subagent_path(path)
                /\ (filter = None \/ StartsWith(base, filter[1]))
             THEN "session"
        ELSE "other"

walked(dir) == {e \in fs : IsPrefix(dir, e.path)}

\* Faulty variant: total_jsonl counts only the files the filter lets through.
walk_and_count_total_after_filter(dir, filter) ==
    LET es == walked(dir)
    IN  << Cardinality({e \in es : file_class(e, filter) = "session"}),
           Cardinality({e \in es : file_class(e, filter) = "agent"}),
           Cardinality({e \in es : file_class(e, filter) \in {"session", "agent"}}) >>

walk_and_count(dir, filter) ==
    LET es == walked(dir)
    IN  << Cardinality({e \in es : file_class(e, filter) = "session"}),
           Cardinality({e \in es : file_class(e, filter) = "agent"}),
           Cardinality({e \in es : file_class(e, filter) # "skipped"}) >>

\* The set of directories directly under the projects root.
get_all_project_dirs ==
    LET base == claude_projects_base
    IN  { SubSeq(e.path, 1, Len(base) + 1) :
            e \in {x \in fs : /\ IsPrefix(base, x.path)
                              /\ \/ Len(x.path) > Len(base) + 1
                                 \/ Len(x.path) = Len(base) + 1 /\ ~x.isFile} }

\* Faulty variant: the second glob descends from the root at any depth.
filtered_patterns_recursive(root, filter, agents) ==
    <<root \o <<filter \o STAR \o JSONL_EXT>>>>
    \o (IF agents > 0
        THEN <<root \o <<STARSTAR, STAR \o JSONL_EXT>>>>
        ELSE <<>>)

filtered_patterns(root, filter, agents) ==
    <<root \o <<filter \o STAR \o JSONL_EXT>>>>
    \o (IF agents > 0
        THEN <<root \o <<filter \o STAR, SUBAGENTS, STAR \o JSONL_EXT>>>>
        ELSE <<>>)

\* Faulty variant: the fallback is taken whenever no session was counted.
get_session_files_data_dir_sessions_only(dir, filter) ==
    LET c == walk_and_count(dir, filter)
    IN  IF c[1] = 0
        THEN IF c[3] = 0
             THEN SessionInfo(0, 0, 0, Single(EMPTY_GLOB))
             ELSE SessionInfo(c[3], 0, 1, Single(dir \o <<STARSTAR, STAR \o JSONL_EXT>>))
        ELSE SessionInfo(c[1], c[2], 1,
                 IF IsSome(filter)
                 THEN Multiple(filtered_patterns(dir, filter[1], c[2]))
                 ELSE Single(dir \o <<STARSTAR, STAR \o JSONL_EXT>>))

get_session_files_data_dir(dir, filter) ==
    LET c == walk_and_count(dir, filter)
    IN  IF c[1] = 0 /\ c[2] = 0
        THEN IF c[3] = 0
             THEN SessionInfo(0, 0, 0, Single(EMPTY_GLOB))
             ELSE SessionInfo(c[3], 0, 1, Single(dir \o <<STARSTAR, STAR \o JSONL_EXT>>))
        ELSE SessionInfo(c[1], c[2], 1,
                 IF IsSome(filter)
                 THEN Multiple(filtered_patterns(dir, filter[1], c[2]))
                 ELSE Single(dir \o <<STARSTAR, STAR \o JSONL_EXT>>))

RECURSIVE sum_counts(_, _)
sum_counts(dirs, filter) ==
    IF dirs = {} THEN <<0, 0, 0>>
    ELSE LET d == CHOOSE x \in dirs : TRUE
             c == walk_and_count(d, filter)
             r == sum_counts(dirs \ {d}, filter)
         IN  <<c[1] + r[1], c[2] + r[2], c[3] + r[3]>>

get_session_files_all_projects(filter) ==
    LET base == claude_projects_base
        project_dirs == get_all_project_dirs
        t == sum_counts(project_dirs, filter)
    IN  IF t[1] = 0
        THEN SessionInfo(0, 0, 0, Single(EMPTY_GLOB))
        ELSE SessionInfo(t[1], t[2], Cardinality(project_dirs),
                 IF IsSome(filter)
                 THEN Multiple(filtered_patterns(base \o <<STAR>>, filter[1], t[2]))
                 ELSE Single(base \o <<STAR, STARSTAR, STAR \o JSONL_EXT>>))

\* Faulty variant: without sessions the agent count and the glob are kept.
get_session_files_project_keeps_agents(claude_dir, filter) ==
    IF ~exists(claude_dir)
    THEN SessionInfo(0, 0, 1, Single(EMPTY_GLOB))
    ELSE LET c == walk_and_count(claude_dir, filter)
         IN  SessionInfo(c[1], c[2], 1,
                      IF IsSome(filter)
                      THEN Multiple(filtered_patterns(claude_dir, filter[1], c[2]))
                      ELSE Single(claude_dir \o <<STARSTAR, STAR \o JSONL_EXT>>))

get_session_files_project(claude_dir, filter) ==
    IF ~exists(claude_dir)
    THEN SessionInfo(0, 0, 1, Single(EMPTY_GLOB))
    ELSE LET c == walk_and_count(claude_dir, filter)
         IN  IF c[1] = 0
             THEN SessionInfo(0, 0, 1, Single(EMPTY_GLOB))
             ELSE SessionInfo(c[1], c[2], 1,
                      IF IsSome(filter)
                      THEN Multiple(filtered_patterns(claude_dir, filter[1], c[2]))
                      ELSE Single(claude_dir \o <<STARSTAR, STAR \o JSONL_EXT>>))

get_session_files(project, filter, data) ==
    IF IsSome(data) THEN get_session_files_data_dir(data[1], filter)
    ELSE IF project = None THEN get_session_files_all_projects(filter)
    ELSE get_session_files_project(resolve_project_dir(project[1]), filter)

\* Whether get_session_files panics (expect() on a missing home directory).
discovery_panics(project, data) ==
    /\ data = None
    /\ home = None

\* The directory that discovery walks (or probes) in each addressing mode.
searched_path(project, data) ==
    IF IsSome(data) THEN data[1]
    ELSE IF project = None THEN claude_projects_base
    ELSE resolve_project_dir(project[1])

----------------------------------------------------------------------------
(* error.rs, query_session.rs *)

NoSessions(path) == [kind |-> "NoSessions", path |-> path]
Database == [kind |-> "Database", path |-> <<>>]
Io == [kind |-> "Io", path |-> <<>>]
Readline == [kind |-> "Readline", path |-> <<>>]

\* Faulty variant: the project path is preferred to the data directory.
no_sessions_path_project_first(project, data) ==
    IF IsSome(project) THEN project[1]
    ELSE IF IsSome(data) THEN PathStr(data[1])
    ELSE <<>>

\* data_dir.map_or_else(|| project_dir.map(to_path_buf).unwrap_or_default(), to_path_buf)
no_sessions_path(project, data) ==
    IF IsSome(data) THEN PathStr(data[1])
    ELSE IF IsSome(project) THEN project[1]
    ELSE <<>>

\* Faulty variant: the test on the session count never fires.
create_is_empty_never(i) == i.session_count < 0

\* create: if info.session_count() == 0
create_is_empty(i) == i.session_count = 0

----------------------------------------------------------------------------
(* The inputs: command lines, environments and file trees *)

AB == <<"a", "b">>
CD == <<"c", "d">>
AGENT_1 == AGENT_PREFIX \o <<"1">> \o JSONL_EXT
HOME == <<<<"h">>>>
W_ABS == <<"/", "w">>
W_TILDE == <<"~", "/", "w">>
W_REL == <<"w">>
E_DIR == <<"/", "e">>

File(p) == [path |-> p, isFile |-> TRUE]
Dir(p) == [path |-> p, isFile |-> FALSE]

\* Entries below a root: sessions, agent files, misplaced and misnamed files.
RelEntries(root) ==
    { File(root \o <<AB \o JSONL_EXT>>),
      File(root \o <<CD \o JSONL_EXT>>),
      File(root \o <<AGENT_1>>),
      File(root \o <<AB, SUBAGENTS, AGENT_1>>),
      File(root \o <<CD, SUBAGENTS, AGENT_1>>),
      File(root \o <<AB, SUBAGENTS, <<"x">>, AGENT_1>>),
      File(root \o <<AB, SUBAGENTS, AB \o JSONL_EXT>>),
      File(root \o <<SUBAGENTS, AGENT_1>>),
      File(root \o <<<<"n", ".", "t", "x", "t">>>>),
      Dir(root \o <<<<"z">> \o JSONL_EXT>>),
      File(root \o <<<<BAD_BYTE, "b">> \o JSONL_EXT>>) }

CoreEntries(root) == { File(root \o <<AB \o JSONL_EXT>>) }

Trees(universe) == {t \in SUBSET universe : Cardinality(t) <= MaxFiles}

Filters == {None, Some(AB), Some(<<"a">>), Some(<<"s">>), Some(<<>>)}
DataDirs == { <<<<"d">>>>, <<<<"x">>, SUBAGENTS>>, <<SUBAGENTS>> }

\* Entries below the projects root: two project directories and a stray file.
AllProjectsEntries(base) ==
    { Dir(base \o <<<<"-", "w">>>>),
      Dir(base \o <<<<"-", "v">>>>),
      File(base \o <<<<"-", "w">>, AB \o JSONL_EXT>>),
      File(base \o <<<<"-", "w">>, AB, SUBAGENTS, AGENT_1>>),
      File(base \o <<<<"-", "w">>, AGENT_1>>),
      File(base \o <<<<"-", "v">>, AB \o JSONL_EXT>>),
      File(base \o <<<<"-", "v">>, CD, SUBAGENTS, AGENT_1>>),
      File(base \o <<<<"q">> \o JSONL_EXT>>) }

InitProcess ==
    /\ pc = "start"
    /\ phase = "Uninitialized"
    /\ info = None
    /\ err = None
    /\ exit_code = None
    /\ view_batches = 0
    /\ multiline_buffer = <<>>
    /\ input_lines = <<>>
    /\ statements = <<>>
    /\ stmt_idx = 1
    /\ is_first = TRUE
    /\ dispatched = <<>>
    /\ stdout = <<>>
    /\ stderr = <<>>
    /\ sink_errors = 0
    /\ prompts = <<>>
    /\ view_sql = <<>>

\* ccq --data-dir D [-s F] [PROJECT]
InitDataDir(full) ==
    /\ env_project = None
    /\ \E x \in IF full
                THEN {<<Some(HOME), None>>, <<Some(HOME), Some(W_ABS)>>, <<None, Some(W_TILDE)>>}
                ELSE {<<Some(HOME), None>>, <<None, None>>} :
            home = x[1] /\ project_path = x[2]
    /\ session_filter \in (IF full THEN Filters ELSE {None})
    /\ \E d \in (IF full THEN DataDirs ELSE {<<<<"d">>>>}) :
            /\ data_dir = Some(d)
            /\ fs \in Trees(IF full THEN RelEntries(d) ELSE CoreEntries(d))

\* ccq [-s F] PROJECT
InitProject(full) ==
    /\ data_dir = None
    /\ \E x \in IF full
                THEN {<<Some(HOME), None, W_ABS>>, <<Some(HOME), None, W_TILDE>>,
                      <<Some(HOME), None, W_REL>>, <<Some(HOME), Some(E_DIR), W_REL>>,
                      <<None, None, W_ABS>>, <<None, None, W_TILDE>>}
                ELSE {<<Some(HOME), None, W_ABS>>} :
            home = x[1] /\ env_project = x[2] /\ project_path = Some(x[3])
    /\ session_filter \in (IF full THEN Filters ELSE {None})
    /\ IF home = None
       THEN fs = {}
       ELSE LET root == resolve_project_dir(project_path[1])
            IN  fs \in Trees(IF full THEN RelEntries(root) \cup {Dir(root)}
                             ELSE CoreEntries(root))

\* ccq [-s F]
InitAllProjects(full) ==
    /\ data_dir = None
    /\ project_path = None
    /\ env_project = None
    /\ home \in (IF full THEN {Some(HOME), None} ELSE {Some(HOME)})
    /\ session_filter \in (IF full THEN Filters ELSE {None})
    /\ IF home = None
       THEN fs = {}
       ELSE fs \in Trees(IF full THEN AllProjectsEntries(claude_projects_base)
                         ELSE CoreEntries(claude_projects_base \o <<<<"-", "w">>>>))

----------------------------------------------------------------------------
(* QuerySession::create and main, up to the choice of the loop *)

\* main calls run, run calls QuerySession::create: discovery begins.
CallCreate ==
    /\ pc = "start"
    /\ pc' = "discover"
    /\ phase' = "Discovering"
    /\ UNCHANGED <<discoveryVars, parVars, engineVars, view_sql, loopVars, info, err, exit_code, view_batches>>

\* get_session_files and the test on session_count.
Discover ==
    /\ pc = "discover"
    /\ IF discovery_panics(project_path, data_dir)
       THEN /\ pc' = "panicked"
            /\ UNCHANGED <<phase, info, err>>
       ELSE LET i == get_session_files(project_path, session_filter, data_dir)
            IN  /\ info' = Some(i)
                /\ IF create_is_empty(i)
                   THEN /\ phase' = "Empty"
                        /\ err' = Some(NoSessions(no_sessions_path(project_path, data_dir)))
                        /\ pc' = "run_failed"
                   ELSE /\ pc' = "connect"
                        /\ UNCHANGED <<phase, err>>
    /\ UNCHANGED <<discoveryVars, parVars, engineVars, view_sql, loopVars, exit_code, view_batches>>

\* slice.join(sep) on texts.
RECURSIVE join(_, _)
join(texts, sep) ==
    IF texts = <<>> THEN <<>>
    ELSE IF Len(texts) = 1 THEN texts[1]
    ELSE texts[1] \o sep \o join(Tail(texts), sep)

\* format!("'{p}'") of a glob.
quoted(g) == <<"'">> \o PathStr(g) \o <<"'">>

\* Faulty variant: the globs are joined by a comma without the space.
fmt_no_space(fp) ==
    IF fp.tag = "Single" THEN quoted(fp.globs[1])
    ELSE <<"[">> \o join([i \in 1..Len(fp.globs) |-> quoted(fp.globs[i])], <<",">>) \o <<"]">>

\* impl Display for FilePattern.
fmt(fp) ==
    IF fp.tag = "Single" THEN quoted(fp.globs[1])
    ELSE <<"[">> \o join([i \in 1..Len(fp.globs) |-> quoted(fp.globs[i])], <<",", " ">>) \o <<"]">>

\* One CREATE OR REPLACE VIEW statement of the batch: the name of the view,
\* the views of its FROM clauses and, for an ingestion view, the table
\* function with the pattern text embedded in it.
ViewStmt(name, from, reader, pattern_sql) ==
    [name |-> name, from |-> from, reader |-> reader, pattern |-> pattern_sql]

\* Faulty variant: bash_commands is defined before tool_uses, which it reads.
build_create_views_sql_reordered(pattern) ==
    LET pattern_sql == fmt(pattern)
    IN  << ViewStmt("messages", {}, "read_ndjson", pattern_sql),
           ViewStmt("user_messages", {"messages"}, "", <<>>),
           ViewStmt("human_messages", {"user_messages"}, "", <<>>),
           ViewStmt("assistant_messages", {"messages"}, "", <<>>),
           ViewStmt("system_messages", {"messages"}, "", <<>>),
           ViewStmt("raw_messages", {}, "read_ndjson_objects", pattern_sql),
           ViewStmt("bash_commands", {"tool_uses"}, "", <<>>),
           ViewStmt("tool_uses", {"assistant_messages"}, "", <<>>),
           ViewStmt("tool_results", {"user_messages"}, "", <<>>),
           ViewStmt("token_usage", {"assistant_messages"}, "", <<>>),
           ViewStmt("file_operations", {"tool_uses"}, "", <<>>) >>

\* build_create_views_sql: the statements of the batch, in order.
build_create_views_sql(pattern) ==
    LET pattern_sql == fmt(pattern)
    IN  << ViewStmt("messages", {}, "read_ndjson", pattern_sql),
           ViewStmt("user_messages", {"messages"}, "", <<>>),
           ViewStmt("human_messages", {"user_messages"}, "", <<>>),
           ViewStmt("assistant_messages", {"messages"}, "", <<>>),
           ViewStmt("system_messages", {"messages"}, "", <<>>),
           ViewStmt("raw_messages", {}, "read_ndjson_objects", pattern_sql),
           ViewStmt("tool_uses", {"assistant_messages"}, "", <<>>),
           ViewStmt("tool_results", {"user_messages"}, "", <<>>),
           ViewStmt("token_usage", {"assistant_messages"}, "", <<>>),
           ViewStmt("bash_commands", {"tool_uses"}, "", <<>>),
           ViewStmt("file_operations", {"tool_uses"}, "", <<>>) >>

\* The variables of the all-projects walk and of the engine, at rest.
InitSide ==
    /\ unwalked = {}
    /\ partials = <<>>
    /\ store = <<>>
    /\ view_rows = None
    /\ result_set = [columns |-> <<>>, rows |-> <<>>]
    /\ tsv = None
    /\ written = None
    /\ stored = None
    /\ shown = None

\* Connection::open_in_memory, build_create_views_sql, execute_batch.
BuildViews ==
    /\ pc = "connect"
    /\ \E outcome \in {"ok", "open_failed", "batch_failed"} :
         /\ view_batches' = IF outcome = "open_failed" THEN view_batches ELSE view_batches + 1
         /\ view_sql' = IF outcome = "open_failed" THEN view_sql
                        ELSE build_create_views_sql(info[1].file_pattern)
         /\ IF outcome = "ok"
            THEN /\ phase' = "Ready"
                 /\ pc' = "created"
                 /\ UNCHANGED err
            ELSE /\ err' = Some(Database)
                 /\ pc' = "run_failed"
                 /\ UNCHANGED phase
    /\ UNCHANGED <<discoveryVars, parVars, engineVars, loopVars, info, exit_code>>

\* main: run() returned (or the process panicked); an error is printed
\* with the Error: prefix and the exit status is set.
MainExit ==
    /\ pc \in {"run_ok", "run_failed", "panicked"}
    /\ exit_code' = Some(CASE pc = "panicked" -> "PANIC"
                          [] pc = "run_failed" -> "FAILURE"
                          [] OTHER -> "SUCCESS")
    /\ stderr' = IF pc = "run_failed" THEN Append(stderr, [kind |-> "Error", about |-> <<err[1].kind>>]) ELSE stderr
    /\ pc' = "exited"
    /\ UNCHANGED <<discoveryVars, parVars, engineVars, view_sql, prompts, phase, info, err, view_batches,
                   multiline_buffer, input_lines, statements, stmt_idx, is_first,
                   dispatched, stdout, sink_errors>>

InitWalk == InitProcess /\ InitSide /\ (InitDataDir(TRUE) \/ InitProject(TRUE) \/ InitAllProjects(TRUE))
NextWalk == CallCreate \/ Discover \/ BuildViews \/ MainExit
SpecWalk == InitWalk /\ [][NextWalk]_vars

----------------------------------------------------------------------------
(* Vocabulary of the claims about discovery *)

Discovered == info # None
BaseName(e) == e.path[Len(e.path)]

\* The directories that discovery walks.
WalkRoots ==
    IF IsSome(data_dir) THEN {data_dir[1]}
    ELSE IF home = None THEN {}
    ELSE IF project_path = None THEN get_all_project_dirs
    ELSE {resolve_project_dir(project_path[1])}

\* The classification as the specification words it.
JsonlFile(e) == e.isFile /\ EndsWith(BaseName(e), JSONL_EXT)
NamedAgent(e) == StartsWith(BaseName(e), AGENT_PREFIX)
ParentIsSubagents(e) == Len(e.path) >= 2 /\ e.path[Len(e.path) - 1] = SUBAGENTS
UnderSubagents(e) == \E i \in 1..(Len(e.path) - 1) : e.path[i] = SUBAGENTS
AgentFile(e) == JsonlFile(e) /\ ParentIsSubagents(e) /\ NamedAgent(e)
SessionFile(e) == JsonlFile(e) /\ ~NamedAgent(e) /\ ~UnderSubagents(e)
ValidNames(root) == \A e \in walked(root) : to_str(BaseName(e)) # None

\* C1 (as claimed): create fails with NoSessions if and only if discovery
\* reported session_count = 0 and agent_count = 0; a result with no session
\* but some agent file is not a NoSessions failure.
C1_NoSessionsIffBothZero ==
    Discovered =>
        ((err # None /\ err[1].kind = "NoSessions")
            <=> (info[1].session_count = 0 /\ info[1].agent_count = 0))

\* C2 (as claimed): the NoSessions error carries the path that discovery
\* searched (data directory, resolved project directory, projects root) and
\* never an empty path.
C2_NoSessionsCarriesSearchedPath ==
    (err # None /\ err[1].kind = "NoSessions") =>
        /\ err[1].path = PathStr(searched_path(project_path, data_dir))
        /\ err[1].path # <<>>

\* C7 (as claimed): without a filter every regular .jsonl file is counted once
\* in total_jsonl, as an agent iff its parent directory is named subagents and
\* its basename starts with agent-, as a session iff its basename does not
\* start with agent- and it is not under a subagents directory.
C7_WalkClassification ==
    Discovered => \A root \in WalkRoots :
        ValidNames(root) =>
            walk_and_count(root, None) =
                << Cardinality({e \in walked(root) : SessionFile(e)}),
                   Cardinality({e \in walked(root) : AgentFile(e)}),
                   Cardinality({e \in walked(root) : JsonlFile(e)}) >>

\* C8: with a filter p a session file is counted iff its basename starts
\* with p, an agent file iff the name of the directory two levels above it
\* starts with p (whatever its own basename), and total_jsonl is the same
\* as without a filter.
C8_FilterAppliesToOwner ==
    (Discovered /\ IsSome(session_filter)) =>
        \A root \in WalkRoots :
            LET p == session_filter[1]
                valid(e) == to_str(BaseName(e)) # None
                owner_matches(e) ==
                    Len(e.path) >= 3 /\ StartsWith(e.path[Len(e.path) - 2], p)
            IN  /\ \A e \in walked(root) :
                     /\ (SessionFile(e) /\ valid(e)) =>
                            (file_class(e, session_filter) = "session"
                                <=> StartsWith(BaseName(e), p))
                     /\ AgentFile(e) =>
                            (file_class(e, session_filter) = "agent" <=> owner_matches(e))
                /\ walk_and_count(root, session_filter)[1] =
                     Cardinality({e \in walked(root) :
                        SessionFile(e) /\ valid(e) /\ StartsWith(BaseName(e), p)})
                /\ walk_and_count(root, session_filter)[3] = walk_and_count(root, None)[3]

\* An agent file whose own name does not start with the filter was counted
\* because its session directory does.
C8_Witness ==
    /\ Discovered
    /\ session_filter = Some(AB)
    /\ info[1].agent_count >= 1
    /\ \E e \in fs : /\ AgentFile(e)
                     /\ ~StartsWith(BaseName(e), AB)
                     /\ file_class(e, session_filter) = "agent"

\* Entries strictly below a root, and a root that holds nothing but files
\* named <id>.jsonl.
Below(root) == {e \in walked(root) : e.path # root}
FlatJsonlDir(root) ==
    /\ Below(root) # {}
    /\ \A e \in Below(root) :
         /\ Len(e.path) = Len(root) + 1
         /\ JsonlFile(e)
         /\ to_str(BaseName(e)) # None

\* C9 (as claimed): for every directory that holds only files named
\* <id>.jsonl, whatever the id and wherever the directory, the walk without a
\* filter returns session_count = number of files and agent_count = 0.
C9_FlatDirAllSessions ==
    Discovered => \A root \in WalkRoots :
        FlatJsonlDir(root) =>
            /\ walk_and_count(root, None)[1] = Cardinality(Below(root))
            /\ walk_and_count(root, None)[2] = 0

\* C9 (amended): the same for directories whose path has no component named
\* subagents and whose ids do not start with agent-.
C9_FlatDirAllSessionsAmended ==
    Discovered => \A root \in WalkRoots :
        (/\ FlatJsonlDir(root)
         /\ \A i \in 1..Len(root) : root[i] # SUBAGENTS
         /\ \A e \in Below(root) : ~NamedAgent(e)) =>
            /\ walk_and_count(root, None)[1] = Cardinality(Below(root))
            /\ walk_and_count(root, None)[2] = 0

\* Discovery without a filter walked a flat directory of two session files.
C9_Witness ==
    /\ Discovered
    /\ session_filter = None
    /\ IsSome(data_dir)
    /\ FlatJsonlDir(data_dir[1])
    /\ \A e \in Below(data_dir[1]) : ~NamedAgent(e)
    /\ Cardinality(Below(data_dir[1])) = 2
    /\ info[1].session_count = 2
    /\ info[1].agent_count = 0

\* The root the globs are joined onto in each addressing mode.
PatternRoot ==
    IF IsSome(data_dir) THEN data_dir[1]
    ELSE IF project_path = None THEN claude_projects_base \o <<STAR>>
    ELSE resolve_project_dir(project_path[1])

\* C10 (as claimed): with a filter, at least one matching session and no
\* agent file, the pattern is Single("<root>/<filter>*.jsonl").
C10_SingleWhenNoAgents ==
    (/\ Discovered
     /\ IsSome(session_filter)
     /\ info[1].agent_count = 0
     /\ \E root \in WalkRoots : walk_and_count(root, session_filter)[1] >= 1) =>
        info[1].file_pattern = Single(PatternRoot \o <<session_filter[1] \o STAR \o JSONL_EXT>>)

----------------------------------------------------------------------------
(* repl.rs: text helpers *)

IsWhitespace(c) == c \in {" ", "\t", "\n", "\r"}

RECURSIVE trim_start(_)
trim_start(t) == IF t # <<>> /\ IsWhitespace(t[1]) THEN trim_start(Tail(t)) ELSE t

RECURSIVE trim_end(_)
trim_end(t) ==
    IF t # <<>> /\ IsWhitespace(t[Len(t)]) THEN trim_end(SubSeq(t, 1, Len(t) - 1)) ELSE t

trim(t) == trim_end(trim_start(t))

UPPERCASE == <<"A", "B", "C", "D", "E", "F", "G", "H", "I", "J", "K", "L", "M",
               "N", "O", "P", "Q", "R", "S", "T", "U", "V", "W", "X", "Y", "Z">>
LOWERCASE == <<"a", "b", "c", "d", "e", "f", "g", "h", "i", "j", "k", "l", "m",
               "n", "o", "p", "q", "r", "s", "t", "u", "v", "w", "x", "y", "z">>

to_lowercase(t) ==
    [i \in 1..Len(t) |->
        IF \E k \in 1..Len(UPPERCASE) : UPPERCASE[k] = t[i]
        THEN LOWERCASE[CHOOSE k \in 1..Len(UPPERCASE) : UPPERCASE[k] = t[i]]
        ELSE t[i]]

\* Index of the first element of t that satisfies the test, or Len(t) + 1.
FirstSemicolon(t) ==
    IF \E i \in 1..Len(t) : t[i] = ";"
    THEN CHOOSE i \in 1..Len(t) : t[i] = ";" /\ \A j \in 1..(i - 1) : t[j] # ";"
    ELSE Len(t) + 1

FirstWhitespace(t) ==
    IF \E i \in 1..Len(t) : IsWhitespace(t[i])
    THEN CHOOSE i \in 1..Len(t) : IsWhitespace(t[i]) /\ \A j \in 1..(i - 1) : ~IsWhitespace(t[j])
    ELSE Len(t) + 1

\* input.split(';')
RECURSIVE split_semicolon(_)
split_semicolon(t) ==
    LET i == FirstSemicolon(t)
    IN  IF i > Len(t) THEN <<t>>
        ELSE <<SubSeq(t, 1, i - 1)>> \o split_semicolon(SubSeq(t, i + 1, Len(t)))

RECURSIVE split_whitespace(_)
split_whitespace(t) ==
    LET s == trim_start(t)
        i == FirstWhitespace(s)
    IN  IF s = <<>> THEN <<>>
        ELSE <<SubSeq(s, 1, i - 1)>> \o split_whitespace(SubSeq(s, i, Len(s)))

\* input.split(';').map(str::trim).filter(|s| !s.is_empty()).collect()
piped_statements(input) ==
    LET parts == split_semicolon(input)
        trimmed == [i \in 1..Len(parts) |-> trim(parts[i])]
        NonEmpty(x) == x # <<>>
    IN  SelectSeq(trimmed, NonEmpty)

RECURSIVE Flatten(_)
Flatten(ss) == IF ss = <<>> THEN <<>> ELSE ss[1] \o Flatten(Tail(ss))

----------------------------------------------------------------------------
(* repl.rs: the engine's answers, dot-commands, execute_query *)

VIEWS == <<"messages", "user_messages", "human_messages", "assistant_messages",
           "system_messages", "raw_messages", "tool_uses", "tool_results",
           "token_usage", "bash_commands", "file_operations">>

\* The views that the text of print_help lists.
HELP_VIEWS == <<"messages", "user_messages", "human_messages", "assistant_messages",
                "system_messages", "raw_messages", "tool_uses", "tool_results",
                "token_usage", "bash_commands", "file_operations">>

DOT_QUIT == <<".", "q", "u", "i", "t">>
DOT_EXIT == <<".", "e", "x", "i", "t">>
DOT_Q == <<".", "q">>
DOT_HELP == <<".", "h", "e", "l", "p">>
DOT_H == <<".", "h">>
DOT_SCHEMA == <<".", "s", "c", "h", "e", "m", "a">>
DOT_S == <<".", "s">>

\* What the engine may answer to one statement: an error, or a result set.
ResultSets ==
    { [columns |-> <<"a", "b">>, rows |-> [i \in 1..n |-> <<"1", "2">>]] : n \in 0..MaxRows }
NoResult == [columns |-> <<>>, rows |-> <<>>]
QErr == [ok |-> FALSE, result |-> NoResult]
QOk(r) == [ok |-> TRUE, result |-> r]
QueryOutcomes == {QErr} \cup {QOk(r) : r \in ResultSets}

\* The answers to the DESCRIBE statements of .schema, one per view.
DescribeResult == [columns |-> <<"column_name", "column_type">>, rows |-> <<>>]
SchemaOutcomes ==
    { [i \in 1..Len(VIEWS) |-> QOk(DescribeResult)],
      [i \in 1..Len(VIEWS) |-> QErr],
      [i \in 1..Len(VIEWS) |-> IF i = 1 THEN QErr ELSE QOk(DescribeResult)] }

Out(kind, body) == [kind |-> kind, body |-> body]
Call(api, sql, failure) == [api |-> api, sql |-> sql, failure |-> failure]
Report(sql) == [kind |-> "Error", about |-> sql]

\* Faulty variant: the alias .q is not recognized as a quit command.
dot_command_kind_no_alias(command) ==
    LET cmd == to_lowercase(command)
    IN  IF cmd = DOT_QUIT \/ cmd = DOT_EXIT THEN "exit"
        ELSE IF cmd = DOT_HELP \/ cmd = DOT_H THEN "help"
        ELSE IF cmd = DOT_SCHEMA \/ cmd = DOT_S THEN "schema"
        ELSE IF StartsWith(cmd, DOT_SCHEMA \o <<" ">>) \/ StartsWith(cmd, DOT_S \o <<" ">>)
             THEN "schema_view"
        ELSE "unknown"

dot_command_kind(command) ==
    LET cmd == to_lowercase(command)
    IN  IF cmd = DOT_QUIT \/ cmd = DOT_EXIT \/ cmd = DOT_Q THEN "exit"
        ELSE IF cmd = DOT_HELP \/ cmd = DOT_H THEN "help"
        ELSE IF cmd = DOT_SCHEMA \/ cmd = DOT_S THEN "schema"
        ELSE IF StartsWith(cmd, DOT_SCHEMA \o <<" ">>) \/ StartsWith(cmd, DOT_S \o <<" ">>)
             THEN "schema_view"
        ELSE "unknown"

\* command.split_whitespace().nth(1).unwrap_or("")
second_word(command) ==
    LET ws == split_whitespace(command) IN IF Len(ws) >= 2 THEN ws[2] ELSE <<>>

\* The statements a dot-command sends to session.query, in order.
dot_command_queries(command) ==
    LET k == dot_command_kind(command)
    IN  IF k = "schema" THEN [i \in 1..Len(VIEWS) |-> <<"DESCRIBE ", VIEWS[i]>>]
        ELSE IF k = "schema_view" THEN << <<"DESCRIBE ">> \o second_word(command) >>
        ELSE <<>>

\* The answers the engine may give to a sequence of n statements.
OutcomesFor(sqls) ==
    IF Len(sqls) = 0 THEN {<<>>}
    ELSE IF Len(sqls) = 1 THEN {<<o>> : o \in QueryOutcomes}
    ELSE SchemaOutcomes

\* The effects of running statements through session.query: the calls, what
\* goes to stdout (a heading before each, the table on success) and, when
\* errors are reported (execute_query), what goes to stderr.
query_effects(sqls, oc, headings, report_errors) ==
    [ calls |-> [i \in 1..Len(sqls) |->
                    Call("query", sqls[i], IF oc[i].ok THEN "none" ELSE "Database")],
      out |-> Flatten([i \in 1..Len(sqls) |->
                    headings[i] \o (IF oc[i].ok THEN <<Out("table", oc[i].result)>> ELSE <<>>)]),
      errs |-> Flatten([i \in 1..Len(sqls) |->
                    IF oc[i].ok \/ ~report_errors THEN <<>> ELSE <<Report(sqls[i])>>]) ]

execute_query(sql, o) == query_effects(<<sql>>, <<o>>, <<<<>>>>, TRUE)

\* handle_dot_command (piped = FALSE) and handle_dot_command_piped (TRUE):
\* the result and the effects, given the engine's answers.
dot_command_effects(command, oc, piped) ==
    LET k == dot_command_kind(command)
        sqls == dot_command_queries(command)
        headings == [i \in 1..Len(sqls) |->
                        IF k = "schema" THEN <<Out("heading", VIEWS[i])>> ELSE <<>>]
        q == query_effects(sqls, oc, headings, ~piped)
    IN  [ result |-> IF k = "exit" THEN "Exit" ELSE "Continue",
          calls |-> q.calls,
          out |-> IF k = "help" THEN <<Out("help", <<>>)>>
                  ELSE IF k = "unknown" THEN <<Out("unknown_command", command)>>
                  ELSE q.out,
          errs |-> q.errs ]

----------------------------------------------------------------------------
(* main.rs, repl.rs: the interactive loop *)

PROMPT == <<"c", "c", "q", ">", " ">>
CONTINUATION_PROMPT == <<" ", " ", "-", ">", " ">>

\* The lines a user may type.
Lines ==
    { <<"s", ";", " ">>,          \* a complete statement
      <<"s">>,                    \* the beginning of a multi-line statement
      <<>>,                       \* an empty line
      DOT_Q, <<" ", ".", "Q">>, DOT_EXIT, DOT_QUIT,
      <<".", "x">>,               \* not a command
      DOT_H,
      <<".", "s", " ", "v">> }

Banner(i) ==
    Out("banner", [projects |-> IF i.project_count > 1 THEN Some(i.project_count) ELSE None,
                   sessions |-> i.session_count,
                   agents |-> i.agent_count])

\* run: stdin is a terminal; start_interactive up to the first prompt.
StartInteractive ==
    /\ pc = "created"
    /\ IF home = None
       THEN /\ err' = Some(Io)
            /\ pc' = "run_failed"
            /\ UNCHANGED stdout
       ELSE \E editor_ok \in BOOLEAN :
              IF editor_ok
              THEN /\ stdout' = Append(stdout, Banner(info[1]))
                   /\ pc' = "repl"
                   /\ UNCHANGED err
              ELSE /\ err' = Some(Readline)
                   /\ pc' = "run_failed"
                   /\ UNCHANGED stdout
    /\ UNCHANGED <<discoveryVars, parVars, engineVars, view_sql, prompts, phase, info, exit_code, view_batches,
                   multiline_buffer, input_lines, statements, stmt_idx, is_first,
                   dispatched, stderr, sink_errors>>

\* Faulty variant: the buffer is not cleared after the statement is executed.
read_line_keeps_buffer(buffer, line) ==
    LET trimmed == trim(line)
        pending == buffer # <<>>
        joined == buffer \o <<"\n">> \o line
        is_dot == ~pending /\ StartsWith(trimmed, <<".">>)
        ends == EndsWith(trimmed, <<";">>)
    IN  [ is_dot |-> is_dot,
          sql |-> IF pending THEN (IF ends THEN Some(joined) ELSE None)
                  ELSE IF ~is_dot /\ trimmed # <<>> /\ ends THEN Some(trimmed)
                  ELSE None,
          buffer |-> IF pending THEN (IF ends THEN joined ELSE joined)
                     ELSE IF ~is_dot /\ trimmed # <<>> /\ ~ends THEN line
                     ELSE buffer ]

\* Faulty variant: a line beginning with `.` is a dot-command even while a
\* statement is pending.
read_line_dot_while_pending(buffer, line) ==
    LET trimmed == trim(line)
        pending == buffer # <<>>
        joined == buffer \o <<"\n">> \o line
        is_dot == StartsWith(trimmed, <<".">>)
        ends == EndsWith(trimmed, <<";">>)
    IN  [ is_dot |-> is_dot,
          sql |-> IF pending /\ ~is_dot THEN (IF ends THEN Some(joined) ELSE None)
                  ELSE IF ~is_dot /\ trimmed # <<>> /\ ends THEN Some(trimmed)
                  ELSE None,
          buffer |-> IF pending /\ ~is_dot THEN (IF ends THEN <<>> ELSE joined)
                     ELSE IF ~is_dot /\ trimmed # <<>> /\ ~ends THEN line
                     ELSE buffer ]

\* The body of the Ok(line) arm of run_repl_loop, given the buffer: whether
\* the line is handled as a dot-command, the SQL text handed to execute_query
\* (an Option) and the buffer afterwards.
read_line(buffer, line) ==
    LET trimmed == trim(line)
        pending == buffer # <<>>
        joined == buffer \o <<"\n">> \o line
        is_dot == ~pending /\ StartsWith(trimmed, <<".">>)
        ends == EndsWith(trimmed, <<";">>)
    IN  [ is_dot |-> is_dot,
          sql |-> IF pending THEN (IF ends THEN Some(joined) ELSE None)
                  ELSE IF ~is_dot /\ trimmed # <<>> /\ ends THEN Some(trimmed)
                  ELSE None,
          buffer |-> IF pending THEN (IF ends THEN <<>> ELSE joined)
                     ELSE IF ~is_dot /\ trimmed # <<>> /\ ~ends THEN line
                     ELSE buffer ]

\* One iteration of run_repl_loop in which readline returns Ok(line).
ReplLine ==
    /\ pc = "repl"
    /\ prompts' = Append(prompts, IF multiline_buffer = <<>> THEN PROMPT
                                    ELSE CONTINUATION_PROMPT)
    /\ Len(input_lines) < MaxLines
    /\ \E line \in Lines :
        LET trimmed == trim(line)
            r == read_line(multiline_buffer, line)
            sqls == IF r.is_dot THEN dot_command_queries(trimmed) ELSE r.sql
        IN  \E oc \in OutcomesFor(sqls) :
            LET eff == IF r.is_dot THEN dot_command_effects(trimmed, oc, FALSE)
                       ELSE IF sqls # <<>>
                            THEN [result |-> "Continue"] @@ execute_query(sqls[1], oc[1])
                       ELSE [result |-> "Continue", calls |-> <<>>, out |-> <<>>, errs |-> <<>>]
            IN  /\ input_lines' = Append(input_lines, line)
                /\ multiline_buffer' = r.buffer
                /\ dispatched' = dispatched \o eff.calls
                /\ stderr' = stderr \o eff.errs
                /\ IF eff.result = "Exit"
                   THEN /\ stdout' = stdout \o eff.out \o <<Out("goodbye", <<>>)>>
                        /\ pc' = "run_ok"
                   ELSE /\ stdout' = stdout \o eff.out
                        /\ pc' = "repl"
    /\ UNCHANGED <<discoveryVars, parVars, engineVars, view_sql, phase, info, err, exit_code, view_batches,
                   statements, stmt_idx, is_first, sink_errors>>

\* readline returns Interrupted or Eof: the loop ends normally.
ReplBreak ==
    /\ pc = "repl"
    /\ prompts' = Append(prompts, IF multiline_buffer = <<>> THEN PROMPT
                                    ELSE CONTINUATION_PROMPT)
    /\ stdout' = Append(stdout, Out("goodbye", <<>>))
    /\ pc' = "run_ok"
    /\ UNCHANGED <<discoveryVars, parVars, engineVars, view_sql, phase, info, err, exit_code, view_batches,
                   multiline_buffer, input_lines, statements, stmt_idx, is_first,
                   dispatched, stderr, sink_errors>>

\* readline returns another error: run_repl_loop returns it.
ReplReadError ==
    /\ pc = "repl"
    /\ prompts' = Append(prompts, IF multiline_buffer = <<>> THEN PROMPT
                                    ELSE CONTINUATION_PROMPT)
    /\ err' = Some(Readline)
    /\ pc' = "run_failed"
    /\ UNCHANGED <<discoveryVars, parVars, engineVars, view_sql, phase, info, exit_code, view_batches,
                   multiline_buffer, input_lines, statements, stmt_idx, is_first,
                   dispatched, stdout, stderr, sink_errors>>

----------------------------------------------------------------------------
(* repl.rs: the piped loop *)

\* Pieces of piped input; stdin is a concatenation of at most MaxPieces.
Pieces ==
    { <<"s", ";">>,
      <<"t">>,
      <<";">>,
      <<".", "q", ";">>, <<" ", ".", "Q", " ", ";">>, DOT_EXIT \o <<";">>, DOT_QUIT \o <<";">>,
      <<".", "x", ";">>,
      <<".", "q", "\n", "s", ";">>,
      <<".", "h", ";">>,
      <<".", "s", ";">>,
      <<".", "s", " ", "v", ";">> }

RECURSIVE PipedInputs(_)
PipedInputs(n) ==
    IF n = 0 THEN {<<>>}
    ELSE PipedInputs(n - 1) \cup {x \o y : x \in PipedInputs(n - 1), y \in Pieces}

\* How one call of query_tsv_streaming goes: the result set the engine would
\* produce and the step that fails (0 none, 1 prepare or query, 2 writing
\* the header, 2 + j fetching or writing row j), with the kind of the error.
StreamOutcomes ==
    { [result |-> r, fail_at |-> 0, failure |-> "none"] : r \in ResultSets }
    \cup { [result |-> NoResult, fail_at |-> 1, failure |-> "Database"] }
    \cup { [result |-> r, fail_at |-> 2, failure |-> "Io"] : r \in ResultSets }
    \cup { [result |-> r, fail_at |-> 2 + j, failure |-> k] :
             r \in ResultSets, j \in 1..MaxRows, k \in {"Database", "Io"} }

ValidOutcome(so) == so.fail_at <= 2 + Len(so.result.rows)

\* What query_tsv_streaming has written when it returns.
streamed(so) ==
    (IF so.fail_at \in {1, 2} THEN <<>> ELSE <<Out("header", so.result.columns)>>)
    \o [j \in 1..(IF so.fail_at = 0 THEN Len(so.result.rows)
                  ELSE IF so.fail_at <= 2 THEN 0 ELSE so.fail_at - 3) |->
            Out("row", so.result.rows[j])]

\* run: stdin is not a terminal; run_piped reads stdin and splits it.
PipedRead ==
    /\ pc = "created"
    /\ \E read_ok \in BOOLEAN :
         IF read_ok
         THEN \E input \in PipedInputs(MaxPieces) :
                /\ input_lines' = <<input>>
                /\ statements' = piped_statements(input)
                /\ stmt_idx' = 1
                /\ is_first' = TRUE
                /\ pc' = "piped"
                /\ UNCHANGED err
         ELSE /\ err' = Some(Io)
              /\ pc' = "run_failed"
              /\ UNCHANGED <<input_lines, statements, stmt_idx, is_first>>
    /\ UNCHANGED <<discoveryVars, parVars, engineVars, view_sql, prompts, phase, info, exit_code, view_batches,
                   multiline_buffer, dispatched, stdout, stderr, sink_errors>>

\* Faulty variant: the error of the statement is returned, as `?` would.
after_stream_error_propagate(failure, flush_ok) ==
    Some(IF failure = "Io" THEN Io ELSE Database)

\* The Err arm of the match in run_piped: writer.flush()? and the report.
\* The error run_piped returns, or None when the loop goes on.
after_stream_error(failure, flush_ok) == IF flush_ok THEN None ELSE Some(Io)

\* One iteration of the for loop of run_piped over a dot-command.
PipedDotCommand ==
    /\ pc = "piped"
    /\ stmt_idx <= Len(statements)
    /\ StartsWith(statements[stmt_idx], <<".">>)
    /\ LET stmt == statements[stmt_idx]
       IN  \E flush_ok \in BOOLEAN, oc \in OutcomesFor(dot_command_queries(stmt)),
              final_flush_ok \in BOOLEAN :
            LET eff == dot_command_effects(stmt, oc, TRUE)
            IN  IF ~flush_ok
                THEN /\ err' = Some(Io)
                     /\ pc' = "run_failed"
                     /\ sink_errors' = sink_errors + 1
                     /\ UNCHANGED <<stmt_idx, dispatched, stdout>>
                ELSE /\ dispatched' = dispatched \o eff.calls
                     /\ stdout' = stdout \o eff.out
                     /\ IF eff.result = "Exit"
                        THEN /\ pc' = IF final_flush_ok THEN "run_ok" ELSE "run_failed"
                             /\ err' = IF final_flush_ok THEN err ELSE Some(Io)
                             /\ sink_errors' = sink_errors + (IF final_flush_ok THEN 0 ELSE 1)
                             /\ UNCHANGED stmt_idx
                        ELSE /\ stmt_idx' = stmt_idx + 1
                             /\ UNCHANGED <<pc, err, sink_errors>>
    /\ UNCHANGED <<discoveryVars, parVars, engineVars, view_sql, prompts, phase, info, exit_code, view_batches,
                   multiline_buffer, input_lines, statements, is_first, stderr>>

\* Faulty variant: is_first is cleared by a failed statement too.
is_first_after_any(first, so) == FALSE

\* The match on query_tsv_streaming in run_piped: only Ok(_) sets is_first
\* to false.
is_first_after(first, so) == IF so.fail_at = 0 THEN FALSE ELSE first

\* One iteration of the for loop of run_piped over a SQL statement.
PipedStatement ==
    /\ pc = "piped"
    /\ stmt_idx <= Len(statements)
    /\ ~StartsWith(statements[stmt_idx], <<".">>)
    /\ LET stmt == statements[stmt_idx]
       IN  \E sep_ok \in BOOLEAN, so \in {x \in StreamOutcomes : ValidOutcome(x)},
              flush_ok \in BOOLEAN :
            IF ~is_first /\ ~sep_ok
            THEN /\ err' = Some(Io)
                 /\ pc' = "run_failed"
                 /\ sink_errors' = sink_errors + 1
                 /\ UNCHANGED <<stmt_idx, is_first, dispatched, stdout, stderr>>
            ELSE /\ dispatched' = Append(dispatched, Call("stream", stmt, so.failure))
                 /\ stdout' = stdout \o (IF is_first THEN <<>> ELSE <<Out("separator", <<"---">>)>>)
                                     \o streamed(so)
                 /\ is_first' = is_first_after(is_first, so)
                 /\ IF so.fail_at = 0
                    THEN /\ stmt_idx' = stmt_idx + 1
                         /\ UNCHANGED <<pc, err, stderr, sink_errors>>
                    ELSE LET returned == after_stream_error(so.failure, flush_ok)
                         IN  /\ sink_errors' = sink_errors
                                    + (IF so.failure = "Io" THEN 1 ELSE 0)
                                    + (IF flush_ok THEN 0 ELSE 1)
                             /\ IF returned = None
                                THEN /\ stderr' = Append(stderr, Report(stmt))
                                     /\ stmt_idx' = stmt_idx + 1
                                     /\ UNCHANGED <<pc, err>>
                                ELSE /\ err' = returned
                                     /\ pc' = "run_failed"
                                     /\ UNCHANGED <<stmt_idx, stderr>>
    /\ UNCHANGED <<discoveryVars, parVars, engineVars, view_sql, prompts, phase, info, exit_code, view_batches,
                   multiline_buffer, input_lines, statements>>

\* After the last statement: the final flush, and run_piped returns.
PipedFinish ==
    /\ pc = "piped"
    /\ stmt_idx > Len(statements)
    /\ \E final_flush_ok \in BOOLEAN :
         /\ pc' = IF final_flush_ok THEN "run_ok" ELSE "run_failed"
         /\ err' = IF final_flush_ok THEN err ELSE Some(Io)
         /\ sink_errors' = sink_errors + (IF final_flush_ok THEN 0 ELSE 1)
    /\ UNCHANGED <<discoveryVars, parVars, engineVars, view_sql, prompts, phase, info, exit_code, view_batches,
                   multiline_buffer, input_lines, statements, stmt_idx, is_first,
                   dispatched, stdout, stderr>>

----------------------------------------------------------------------------
(* The process *)

Init == InitProcess /\ InitSide /\ (InitDataDir(FALSE) \/ InitProject(FALSE) \/ InitAllProjects(FALSE))

Next ==
    \/ CallCreate \/ Discover \/ BuildViews \/ MainExit
    \/ StartInteractive \/ ReplLine \/ ReplBreak \/ ReplReadError
    \/ PipedRead \/ PipedDotCommand \/ PipedStatement \/ PipedFinish

Spec == Init /\ [][Next]_vars

----------------------------------------------------------------------------
(* Claims about the facade and the loops *)

Terminal == {"run_ok", "run_failed", "panicked", "exited"}
QuitCommands == {DOT_QUIT, DOT_EXIT, DOT_Q}

C3_StateInv ==
    /\ view_batches <= 1
    /\ (view_batches = 1 => Discovered)
    /\ (phase = "Ready" => view_batches = 1 /\ Discovered /\ info[1].session_count > 0)
    /\ (dispatched # <<>> => phase = "Ready")
    /\ ((Discovered /\ info[1].session_count = 0) => phase = "Empty")
    /\ (phase = "Empty" =>
            /\ dispatched = <<>>
            /\ view_batches = 0
            /\ err # None /\ err[1].kind = "NoSessions"
            /\ pc \in {"run_failed", "exited"}
            /\ (pc = "exited" => exit_code = Some("FAILURE")))

C3_Step ==
    /\ (phase' # phase =>
            <<phase, phase'>> \in { <<"Uninitialized", "Discovering">>,
                                    <<"Discovering", "Empty">>,
                                    <<"Discovering", "Ready">> })
    /\ (phase = "Ready" => info' = info /\ view_batches' = view_batches)
    /\ (dispatched' # dispatched => info' = info /\ view_batches' = view_batches)

\* C3: the facade moves Uninitialized -> Discovering -> (Empty | Ready) and
\* never back; the view batch runs once, after discovery and before any
\* query; a run that ended in Empty makes no query call and exits with a
\* failure status; after Ready neither SessionInfo nor the views change.
C3_FacadeLifecycle == [](C3_StateInv) /\ [][C3_Step]_vars

\* Queries ran against a facade that was made Ready once.
C3_Witness ==
    /\ phase = "Ready"
    /\ view_batches = 1
    /\ Len(dispatched) >= 2
    /\ pc = "exited"

IsStreamCall(c) == c.api = "stream"
IsSqlStatement(t) == ~StartsWith(t, <<".">>)

\* In the piped loop the statements handed to query_tsv_streaming so far are
\* the SQL statements before the current one, in input order.
C4_PipedOrder ==
    pc = "piped" =>
        LET calls == SelectSeq(dispatched, IsStreamCall)
            sqls == SelectSeq(SubSeq(statements, 1, stmt_idx - 1), IsSqlStatement)
        IN  /\ Len(calls) = Len(sqls)
            /\ \A i \in 1..Len(calls) : calls[i].sql = sqls[i]

\* A statement that failed with an engine error in this step (and no write
\* to the sink failed): it is reported, nothing is returned, the loop is at
\* the next input.
C4_Step ==
    \A i \in (Len(dispatched) + 1)..Len(dispatched') :
        LET c == dispatched'[i]
        IN  (/\ c.failure = "Database"
             /\ sink_errors' = sink_errors
             /\ (c.api = "stream" \/ pc = "repl")) =>
                /\ pc' = pc
                /\ err' = err
                /\ \E k \in (Len(stderr) + 1)..Len(stderr') : stderr'[k] = Report(c.sql)
                /\ (pc = "piped" => stmt_idx' = stmt_idx + 1)

C5_WriteFailureIsFatal ==
    sink_errors > 0 => (pc \in {"run_failed", "exited"} /\ err = Some(Io))

\* The dot-command that this step hands to handle_dot_command or
\* handle_dot_command_piped, if any.
C6_Command ==
    IF /\ pc = "repl"
       /\ Len(input_lines') = Len(input_lines) + 1
       /\ multiline_buffer = <<>>
       /\ StartsWith(trim(input_lines'[Len(input_lines')]), <<".">>)
    THEN Some(trim(input_lines'[Len(input_lines')]))
    ELSE IF /\ pc = "piped"
            /\ stmt_idx <= Len(statements)
            /\ StartsWith(statements[stmt_idx], <<".">>)
            /\ (pc' # pc \/ stmt_idx' # stmt_idx)
    THEN Some(statements[stmt_idx])
    ELSE None

C6_Step ==
    LET c == C6_Command
    IN  c # None =>
          /\ (to_lowercase(c[1]) \in QuitCommands =>
                 pc' \in Terminal /\ dispatched' = dispatched)
          /\ ((dot_command_kind(c[1]) = "unknown" /\ sink_errors' = sink_errors) =>
                 /\ stdout' = Append(stdout, Out("unknown_command", c[1]))
                 /\ dispatched' = dispatched
                 /\ pc' = pc
                 /\ (pc = "piped" => stmt_idx' = stmt_idx + 1))

C6_Ended == pc \in Terminal => (pc' \in Terminal /\ dispatched' = dispatched)

\* C6: in both loops .quit, .exit and .q end the loop and nothing is
\* dispatched afterwards; an unrecognized dot-command prints one notice and
\* the loop continues with the next input.
C6_DotCommands == [][C6_Step /\ C6_Ended]_vars

\* A piped run printed the notice for an unknown command, went on, and ended
\* at a quit command.
C6_Witness ==
    /\ pc = "run_ok"
    /\ stmt_idx <= Len(statements)
    /\ to_lowercase(statements[stmt_idx]) \in QuitCommands
    /\ \E k \in 1..Len(stdout) : stdout[k].kind = "unknown_command"

----------------------------------------------------------------------------
(* The files a pattern addresses when the engine expands it *)

\* One component of a glob against one name: * stands for any run of
\* characters.
RECURSIVE glob_match(_, _)
glob_match(pat, text) ==
    IF pat = <<>> THEN text = <<>>
    ELSE IF pat[1] = "*"
         THEN glob_match(Tail(pat), text) \/ (text # <<>> /\ glob_match(pat, Tail(text)))
    ELSE text # <<>> /\ pat[1] = text[1] /\ glob_match(Tail(pat), Tail(text))

\* A glob against a path, component by component: ** stands for any number
\* of directories, none included.
RECURSIVE glob_path_match(_, _)
glob_path_match(pats, comps) ==
    IF pats = <<>> THEN comps = <<>>
    ELSE IF pats[1] = STARSTAR
         THEN \/ glob_path_match(Tail(pats), comps)
              \/ (comps # <<>> /\ glob_path_match(pats, Tail(comps)))
    ELSE /\ comps # <<>>
         /\ glob_match(pats[1], comps[1])
         /\ glob_path_match(Tail(pats), Tail(comps))

\* read_ndjson(<pattern>): the regular files that one glob, and a whole
\* pattern, expand to.
glob_files(g) ==
    IF g = EMPTY_GLOB THEN {} ELSE {e \in fs : e.isFile /\ glob_path_match(g, e.path)}
addressed(fp) == UNION {glob_files(fp.globs[i]) : i \in 1..Len(fp.globs)}

----------------------------------------------------------------------------
(* Claims about the result of discovery *)

\* The files the walk of this run counted as a session or as an agent.
Counted ==
    {e \in UNION {walked(r) : r \in WalkRoots} :
        file_class(e, session_filter) \in {"session", "agent"}}

\* The direct-dir fallback was taken.
FallbackTaken ==
    /\ IsSome(data_dir)
    /\ LET c == walk_and_count(data_dir[1], session_filter)
       IN  c[1] = 0 /\ c[2] = 0 /\ c[3] > 0

\* C11 (as claimed): whenever discovery returns without the direct-dir
\* fallback, the files its pattern addresses are exactly the files the walk
\* counted as sessions or agents, and session_count + agent_count is their
\* number.
C11_PatternAddressesCounted ==
    (Discovered /\ ~FallbackTaken) =>
        /\ addressed(info[1].file_pattern) = Counted
        /\ info[1].session_count + info[1].agent_count
             = Cardinality(addressed(info[1].file_pattern))

\* C12: the globs of a Multiple pattern address pairwise disjoint sets of
\* files.
C12_MultipleGlobsDisjoint ==
    (Discovered /\ info[1].file_pattern.tag = "Multiple") =>
        LET gs == info[1].file_pattern.globs
        IN  \A i, j \in 1..Len(gs) :
                i # j => glob_files(gs[i]) \cap glob_files(gs[j]) = {}

\* A Multiple pattern of two globs that each address a file.
C12_Witness ==
    /\ Discovered
    /\ info[1].file_pattern.tag = "Multiple"
    /\ Len(info[1].file_pattern.globs) = 2
    /\ \A i \in 1..2 : glob_files(info[1].file_pattern.globs[i]) # {}

\* C13: in direct-dir mode the fallback (every .jsonl file is a session, no
\* agents, pattern <root>/**/*.jsonl) is the result when the walk returns no
\* session, no agent and some .jsonl file; without any .jsonl file the
\* counts are zero and the pattern is empty; in every other case the counts
\* are those of the walk.
C13_FallbackThreshold ==
    (Discovered /\ IsSome(data_dir)) =>
        LET c == walk_and_count(data_dir[1], session_filter)
            i == info[1]
        IN  /\ (c[1] = 0 /\ c[2] = 0 /\ c[3] > 0) =>
                  /\ i.session_count = c[3]
                  /\ i.agent_count = 0
                  /\ i.file_pattern = Single(data_dir[1] \o <<STARSTAR, STAR \o JSONL_EXT>>)
            /\ c[3] = 0 =>
                  /\ i.session_count = 0
                  /\ i.agent_count = 0
                  /\ i.file_pattern = Single(EMPTY_GLOB)
            /\ (c[1] > 0 \/ c[2] > 0) =>
                  /\ i.session_count = c[1]
                  /\ i.agent_count = c[2]

\* A directory with an agent file of an unmatched owner next to an
\* unmatched session: counts of the walk are zero and the fallback applies.
C13_Witness ==
    /\ Discovered
    /\ IsSome(data_dir)
    /\ FallbackTaken
    /\ info[1].session_count >= 2
    /\ \E e \in fs : AgentFile(e)

\* C14: in project mode, when the resolved directory does not exist or the
\* walk counts no session (agent files or not), discovery returns zero
\* counts and the empty pattern, and create reports NoSessions.
C14_ProjectModeEmpty ==
    (Discovered /\ data_dir = None /\ project_path # None) =>
        LET dir == resolve_project_dir(project_path[1])
        IN  (~exists(dir) \/ walk_and_count(dir, session_filter)[1] = 0) =>
                /\ info[1].session_count = 0
                /\ info[1].agent_count = 0
                /\ info[1].file_pattern = Single(EMPTY_GLOB)
                /\ err # None /\ err[1].kind = "NoSessions"

\* A project directory in which the walk counted an agent file and no
\* session.
C14_Witness ==
    /\ Discovered
    /\ data_dir = None
    /\ project_path # None
    /\ walk_and_count(resolve_project_dir(project_path[1]), session_filter)[1] = 0
    /\ walk_and_count(resolve_project_dir(project_path[1]), session_filter)[2] >= 1
    /\ info[1].agent_count = 0

\* C15 (as claimed): when a project path has to be resolved and no home
\* directory can be determined, create returns an error value that main
\* reports; the process does not abort.
C15_MissingHomeIsAnError ==
    (/\ home = None
     /\ data_dir = None
     /\ project_path # None
     /\ pc \notin {"start", "discover"}) =>
        /\ pc \in {"run_failed", "exited"}
        /\ err # None
        /\ exit_code # Some("PANIC")

----------------------------------------------------------------------------
(* Claims about the view batch and the pattern text *)

Range(f) == {f[i] : i \in DOMAIN f}

\* C16: the batch defines 11 views, each once, their names are the names
\* of VIEWS (which .schema iterates) and of the list .help prints, and
\* every view is defined after the views it reads from.
C16_ViewCatalog ==
    view_batches = 1 =>
        /\ Len(view_sql) = 11
        /\ \A i, j \in 1..Len(view_sql) : view_sql[i].name = view_sql[j].name => i = j
        /\ {view_sql[i].name : i \in 1..Len(view_sql)} = Range(VIEWS)
        /\ Range(VIEWS) = Range(HELP_VIEWS)
        /\ Len(VIEWS) = 11
        /\ \A i \in 1..Len(view_sql) : \A v \in view_sql[i].from :
               \E j \in 1..(i - 1) : view_sql[j].name = v

\* The batch was executed and the session is in use.
C16_Witness ==
    /\ view_batches = 1
    /\ phase = "Ready"
    /\ Len(view_sql) > 0

\* The text the claim describes, glob by glob from the left.
RECURSIVE QuotedList(_)
QuotedList(gs) ==
    IF gs = <<>> THEN <<>>
    ELSE (<<"'">> \o PathStr(gs[1]) \o <<"'">>)
         \o (IF Len(gs) > 1 THEN <<",", " ">> ELSE <<>>)
         \o QuotedList(Tail(gs))

\* C18: Single(g) renders as 'g', Multiple(gs) as [ then the quoted globs
\* joined by a comma and one space, in order, then ]; that text is what
\* both ingestion views of the batch embed.
C18_PatternRendering ==
    view_batches = 1 =>
        LET fp == info[1].file_pattern
            text == IF fp.tag = "Single" THEN <<"'">> \o PathStr(fp.globs[1]) \o <<"'">>
                    ELSE <<"[">> \o QuotedList(fp.globs) \o <<"]">>
        IN  /\ fmt(fp) = text
            /\ \A i \in 1..Len(view_sql) :
                  /\ view_sql[i].reader # "" => view_sql[i].pattern = text
                  /\ view_sql[i].reader # "" <=> view_sql[i].name \in {"messages", "raw_messages"}

\* A batch was built from a Multiple pattern of two globs.
C18_Witness ==
    /\ view_batches = 1
    /\ info[1].file_pattern.tag = "Multiple"
    /\ Len(info[1].file_pattern.globs) = 2
    /\ view_sql[1].pattern # <<>>

----------------------------------------------------------------------------
(* query_session.rs: the views tool_uses and tool_results over the messages *)

\* The process at position p after create succeeded on a data directory of
\* one session: the state in which a function of the session is applied to
\* drawn inputs.
InitAt(p) ==
    /\ fs = CoreEntries(<<<<"d">>>>) /\ home = Some(HOME) /\ env_project = None
    /\ project_path = None /\ session_filter = None /\ data_dir = Some(<<<<"d">>>>)
    /\ pc = p /\ phase = "Ready" /\ err = None /\ exit_code = None
    /\ info = Some(get_session_files(project_path, session_filter, data_dir))
    /\ view_batches = 1 /\ view_sql = build_create_views_sql(info[1].file_pattern)
    /\ multiline_buffer = <<>> /\ input_lines = <<>> /\ statements = <<>>
    /\ stmt_idx = 1 /\ is_first = TRUE
    /\ dispatched = <<>> /\ stdout = <<>> /\ stderr = <<>> /\ sink_errors = 0
    /\ prompts = <<>>

BlockTypes == {"text", "tool_use", "tool_result"}

\* message->'content' as an array of blocks, by the type of each block.
RECURSIVE Contents(_)
Contents(n) ==
    IF n = 0 THEN {<<>>}
    ELSE Contents(n - 1)
         \cup {Append(c, [type |-> t]) : c \in {x \in Contents(n - 1) : Len(x) = n - 1},
                                        t \in BlockTypes}

\* The rows of the view messages: one assistant and one user message.
Stores ==
    { << [uuid |-> "u1", type |-> "assistant", content |-> a],
         [uuid |-> "u2", type |-> "user", content |-> u] >> :
        a \in Contents(MaxBlocks), u \in Contents(MaxBlocks) }

\* FROM <view> m, LATERAL UNNEST(CAST(message->'content' AS JSON[])) as t(block)
\* WHERE block->>'type' = <btype>: the (message, block) pairs that remain.
unnest_where(mtype, btype) ==
    { <<mi, bi>> \in (1..Len(store)) \X (1..MaxBlocks + 1) :
        /\ store[mi].type = mtype
        /\ bi <= Len(store[mi].content)
        /\ store[mi].content[bi].type = btype }

\* row_number() OVER (PARTITION BY m.uuid ORDER BY (SELECT NULL)): the
\* numberings 1..n of each partition of the remaining rows; the order inside
\* a partition is not specified.
row_numbers(S) ==
    { f \in [S -> 1..(Cardinality(S) + 1)] :
        \A x \in S :
            LET part == {y \in S : store[y[1]].uuid = store[x[1]].uuid}
            IN  /\ f[x] <= Cardinality(part)
                /\ \A y \in part : f[y] = f[x] => y = x }

\* A row of a view: its columns, and where its block stands in the message.
ViewRow(cols, mi, bi) == [cols |-> cols, msg |-> mi, pos |-> bi - 1]

\* SELECT * FROM tool_uses.
QueryToolUses ==
    /\ pc = "views"
    /\ LET S == unnest_where("assistant", "tool_use")
       IN  \E f \in row_numbers(S) :
             view_rows' = Some([view |-> "tool_uses",
                                rows |-> { ViewRow([uuid |-> store[x[1]].uuid,
                                                    tool_id |-> x,
                                                    block_index |-> f[x] - 1], x[1], x[2])
                                           : x \in S }])
    /\ UNCHANGED <<discoveryVars, parVars, loopVars, pc, phase, info, err, exit_code,
                   view_batches, view_sql, store, result_set, tsv, written, stored, shown>>

\* SELECT * FROM tool_results.
QueryToolResults ==
    /\ pc = "views"
    /\ LET S == unnest_where("user", "tool_result")
       IN  view_rows' = Some([view |-> "tool_results",
                              rows |-> { ViewRow([uuid |-> store[x[1]].uuid,
                                                  tool_use_id |-> x], x[1], x[2])
                                         : x \in S }])
    /\ UNCHANGED <<discoveryVars, parVars, loopVars, pc, phase, info, err, exit_code,
                   view_batches, view_sql, store, result_set, tsv, written, stored, shown>>

InitViews ==
    /\ InitAt("views")
    /\ unwalked = {} /\ partials = <<>>
    /\ store \in Stores
    /\ view_rows = None
    /\ result_set = [columns |-> <<>>, rows |-> <<>>]
    /\ tsv = None /\ written = None
    /\ stored = None /\ shown = None
NextViews == QueryToolUses \/ QueryToolResults
SpecViews == InitViews /\ [][NextViews]_vars

\* C17 (as claimed): every row of tool_uses and of tool_results carries a
\* zero-based block_index, equal to the position of the row's block in the
\* content array of its message.
C17_BlockIndexIsPosition ==
    view_rows # None =>
        \A r \in view_rows[1].rows :
            /\ "block_index" \in DOMAIN r.cols
            /\ r.cols.block_index = r.pos

----------------------------------------------------------------------------
(* session_loader.rs: the all-projects walk on the worker pool *)

\* The identity and the operation of the reduction.
reduce_identity == <<0, 0, 0>>

\* Faulty variant: the agent count of the left operand is dropped.
reduce_op_keeps_right(x, y) == <<x[1] + y[1], y[2], x[3] + y[3]>>

\* |(s1, a1, j1), (s2, a2, j2)| (s1 + s2, a1 + a2, j1 + j2)
reduce_op(x, y) == <<x[1] + y[1], x[2] + y[2], x[3] + y[3]>>

\* What get_session_files_all_projects returns for the reduced totals t.
all_projects_info(t, project_dirs, filter) ==
    IF t[1] = 0
    THEN SessionInfo(0, 0, 0, Single(EMPTY_GLOB))
    ELSE SessionInfo(t[1], t[2], Cardinality(project_dirs),
             IF IsSome(filter)
             THEN Multiple(filtered_patterns(claude_projects_base \o <<STAR>>, filter[1], t[2]))
             ELSE Single(claude_projects_base \o <<STAR, STARSTAR, STAR \o JSONL_EXT>>))

\* get_session_files_all_projects up to par_iter(): the directories to walk.
ParStart ==
    /\ pc = "discover"
    /\ data_dir = None /\ project_path = None
    /\ IF discovery_panics(project_path, data_dir)
       THEN /\ pc' = "panicked"
            /\ UNCHANGED parVars
       ELSE /\ pc' = "walking"
            /\ unwalked' = get_all_project_dirs
            /\ partials' = <<>>
    /\ UNCHANGED <<discoveryVars, engineVars, loopVars, phase, info, err, exit_code,
                   view_batches, view_sql>>

\* A worker walks one project directory and holds the result.
ParWalk ==
    /\ pc = "walking"
    /\ \E dir \in unwalked :
         /\ unwalked' = unwalked \ {dir}
         /\ partials' = Append(partials, walk_and_count(dir, session_filter))
    /\ UNCHANGED <<discoveryVars, engineVars, loopVars, pc, phase, info, err, exit_code,
                   view_batches, view_sql>>

\* A worker starts folding a part of the list from the identity.
ParIdentity ==
    /\ pc = "walking"
    /\ Len(partials) < MaxPartials
    /\ partials' = Append(partials, reduce_identity)
    /\ UNCHANGED <<discoveryVars, engineVars, loopVars, pc, phase, info, err, exit_code,
                   view_batches, view_sql, unwalked>>

\* Two partial results, whichever, are combined.
ParReduce ==
    /\ pc = "walking"
    /\ \E i, j \in 1..Len(partials) :
         /\ i # j
         /\ LET rest == [k \in 1..(Len(partials) - 2) |->
                            partials[CHOOSE n \in 1..Len(partials) :
                                /\ n \notin {i, j}
                                /\ Cardinality({x \in 1..n : x \notin {i, j}}) = k]]
            IN  partials' = Append(rest, reduce_op(partials[i], partials[j]))
    /\ UNCHANGED <<discoveryVars, engineVars, loopVars, pc, phase, info, err, exit_code,
                   view_batches, view_sql, unwalked>>

\* The reduction returns; the rest of get_session_files_all_projects and
\* the test of create on session_count.
ParFinish ==
    /\ pc = "walking"
    /\ unwalked = {}
    /\ Len(partials) <= 1
    /\ LET t == IF partials = <<>> THEN reduce_identity ELSE partials[1]
           i == all_projects_info(t, get_all_project_dirs, session_filter)
       IN  /\ info' = Some(i)
           /\ IF create_is_empty(i)
              THEN /\ phase' = "Empty"
                   /\ err' = Some(NoSessions(no_sessions_path(project_path, data_dir)))
                   /\ pc' = "run_failed"
              ELSE /\ pc' = "connect"
                   /\ UNCHANGED <<phase, err>>
    /\ UNCHANGED <<discoveryVars, engineVars, loopVars, exit_code, view_batches, view_sql,
                   parVars>>

InitPar == InitProcess /\ InitSide /\ InitAllProjects(TRUE)
NextPar ==
    \/ CallCreate \/ ParStart \/ ParWalk \/ ParIdentity \/ ParReduce \/ ParFinish
    \/ BuildViews \/ MainExit
SpecPar == InitPar /\ [][NextPar]_vars

----------------------------------------------------------------------------
(* Claims about the all-projects walk *)

RECURSIVE SumSeq(_)
SumSeq(ts) ==
    IF ts = <<>> THEN <<0, 0, 0>>
    ELSE LET r == SumSeq(Tail(ts))
         IN  <<ts[1][1] + r[1], ts[1][2] + r[2], ts[1][3] + r[3]>>

\* The sums of the per-project walks, taken in a fixed order.
ProjectSums == sum_counts(get_all_project_dirs, session_filter)

C19_StateInv ==
    /\ pc = "walking" =>
          LET p == SumSeq(partials)
              u == sum_counts(unwalked, session_filter)
          IN  <<p[1] + u[1], p[2] + u[2], p[3] + u[3]>> = ProjectSums
    /\ (Discovered /\ data_dir = None /\ project_path = None) =>
          /\ info[1] = get_session_files_all_projects(session_filter)
          /\ IF ProjectSums[1] > 0
             THEN /\ info[1].session_count = ProjectSums[1]
                  /\ info[1].agent_count = ProjectSums[2]
                  /\ info[1].project_count = Cardinality(get_all_project_dirs)
             ELSE info[1] = SessionInfo(0, 0, 0, Single(EMPTY_GLOB))

\* A step of the walk writes nothing but the list of directories left and
\* the partial results.
C19_Step ==
    pc = "walking" =>
        /\ fs' = fs
        /\ (pc' = "walking" => info' = info)
        /\ unwalked' \subseteq unwalked

----------------------------------------------------------------------------
(* query_session.rs, formatter.rs: a result as TSV, collected and streamed *)

TAB == <<"\t">>
NEWLINE == <<"\n">>

\* formatter::format_tsv
format_tsv(columns, rows) ==
    join(<<join(columns, TAB)>> \o [i \in 1..Len(rows) |-> join(rows[i], TAB)], NEWLINE)

\* QueryResult::row_count, QueryResult::to_tsv
row_count(result) == Len(result.rows)
to_tsv(result) == format_tsv(result.columns, result.rows)

\* Faulty variant: a tab is written after every cell.
write_row_trailing_tab(row, column_count) ==
    Flatten([i \in 1..column_count |-> row[i] \o TAB]) \o NEWLINE

\* query_tsv_streaming: what the body of the while loop writes for one row.
write_row(row, column_count) ==
    Flatten([i \in 1..column_count |-> (IF i > 1 THEN TAB ELSE <<>>) \o row[i]]) \o NEWLINE

\* query_tsv_streaming without a failure: the text written and Ok(row_count).
query_tsv_streaming(rs) ==
    LET column_count == Len(rs.columns)
    IN  [ text |-> join(rs.columns, TAB) \o NEWLINE
                   \o Flatten([j \in 1..Len(rs.rows) |-> write_row(rs.rows[j], column_count)]),
          count |-> Len(rs.rows) ]

\* Column names, cells, and the result sets the engine may yield.
ColumnNames == {<<"a">>, <<"b", "c">>}
Cells == {<<>>, <<"1">>}
RECURSIVE Tuples(_, _)
Tuples(S, n) ==
    IF n = 0 THEN {<<>>} ELSE {Append(t, x) : t \in Tuples(S, n - 1), x \in S}
TsvResultSets ==
    UNION { { [columns |-> cs, rows |-> rs] :
                cs \in Tuples(ColumnNames, nc),
                rs \in UNION {Tuples(Tuples(Cells, nc), nr) : nr \in 0..MaxTsvRows} }
            : nc \in 0..MaxCols }

\* session.query(sql) succeeds and the result is formatted.
QueryTsv ==
    /\ pc = "tsv"
    /\ tsv = None
    /\ tsv' = Some([text |-> to_tsv(result_set), row_count |-> row_count(result_set)])
    /\ UNCHANGED <<discoveryVars, parVars, loopVars, pc, phase, info, err, exit_code,
                   view_batches, view_sql, store, view_rows, result_set, written, stored, shown>>

\* session.query_tsv_streaming(sql, writer) succeeds.
StreamTsv ==
    /\ pc = "tsv"
    /\ written = None
    /\ written' = Some(query_tsv_streaming(result_set))
    /\ UNCHANGED <<discoveryVars, parVars, loopVars, pc, phase, info, err, exit_code,
                   view_batches, view_sql, store, view_rows, result_set, tsv, stored, shown>>

InitTsv ==
    /\ InitAt("tsv")
    /\ unwalked = {} /\ partials = <<>>
    /\ store = <<>> /\ view_rows = None
    /\ result_set \in TsvResultSets
    /\ tsv = None /\ written = None
    /\ stored = None /\ shown = None
NextTsv == QueryTsv \/ StreamTsv
SpecTsv == InitTsv /\ [][NextTsv]_vars

\* C20: for the same result set, a successful query_tsv_streaming writes the
\* text of format_tsv(query(sql)) followed by one newline and returns
\* query(sql).row_count().
C20_StreamingEqualsFormatTsv ==
    (tsv # None /\ written # None) =>
        /\ written[1].text = tsv[1].text \o <<"\n">>
        /\ written[1].count = tsv[1].row_count

\* A result of two columns and two rows, one cell empty, went both ways.
C20_Witness ==
    /\ tsv # None /\ written # None
    /\ Len(result_set.columns) = 2
    /\ Len(result_set.rows) = 2
    /\ result_set.rows[1][2] = <<>>
    /\ written[1].count = 2

\* ---------------------------------------------------------------------
\* formatter.rs: timestamps.
\*
\* An i64 is a sign and a magnitude; the magnitude is four 16-bit limbs,
\* least significant first, so that every step of the arithmetic stays
\* inside the integers of the checker while the value keeps its 64 bits.

\* magnitude * k + carry, one limb longer than the magnitude.
RECURSIVE mul_limbs(_, _, _)
mul_limbs(m, k, carry) ==
    IF m = <<>> THEN <<carry>>
    ELSE LET t == Head(m) * k + carry
         IN  <<t % 65536>> \o mul_limbs(Tail(m), k, t \div 65536)

\* Quotient and remainder of a magnitude by k.
RECURSIVE div_limbs(_, _)
div_limbs(m, k) ==
    IF m = <<>> THEN [q |-> <<>>, r |-> 0]
    ELSE LET hi == div_limbs(Tail(m), k)
             t  == hi.r * 65536 + Head(m)
         IN  [q |-> <<t \div k>> \o hi.q, r |-> t % k]

\* The i64 written in decimal, three digits to a group.
RECURSIVE i64(_, _)
i64(neg, groups) ==
    IF groups = <<>> THEN [neg |-> neg, mag |-> <<0, 0, 0, 0>>]
    ELSE LET front == i64(neg, SubSeq(groups, 1, Len(groups) - 1))
         IN  [neg |-> neg,
              mag |-> SubSeq(mul_limbs(front.mag, 1000, groups[Len(groups)]), 1, 4)]

is_zero(m) == \A i \in DOMAIN m : m[i] = 0

\* a < b for magnitudes of one length.
less_limbs(a, b) ==
    \E i \in DOMAIN a : a[i] < b[i] /\ \A j \in DOMAIN a : j > i => a[j] = b[j]

\* Does the exact product, a sign and a magnitude of any length, fit an i64?
fits_i64(neg, wide) ==
    /\ is_zero(SubSeq(wide, 5, Len(wide)))
    /\ \/ wide[4] < 32768
       \/ neg /\ SubSeq(wide, 1, 4) = <<0, 0, 0, 32768>>

\* The exact product reduced modulo 2^64 and read as two's complement.
wrap_i64(neg, wide) ==
    LET twos(m) == SubSeq(mul_limbs([i \in 1..4 |-> 65535 - m[i]], 1, 1), 1, 4)
        low == SubSeq(wide, 1, 4)
        u == IF neg /\ ~is_zero(low) THEN twos(low) ELSE low
    IN  IF u[4] >= 32768 THEN [neg |-> TRUE, mag |-> twos(u)]
        ELSE [neg |-> FALSE, mag |-> u]

\* value.div_euclid(k): the quotient rounded down.
div_euclid(value, k) ==
    LET d == div_limbs(value.mag, k)
        q == IF value.neg /\ d.r # 0 THEN SubSeq(mul_limbs(d.q, 1, 1), 1, 4) ELSE d.q
    IN  [neg |-> value.neg /\ ~is_zero(q), mag |-> q]

INVALID_TIMESTAMP ==
    <<"I", "N", "V", "A", "L", "I", "D", "_",
      "T", "I", "M", "E", "S", "T", "A", "M", "P">>

\* Utc.timestamp_micros(micros).single() and its "%Y-%m-%d %H:%M:%S%.3f":
\* no date outside the years -262143 .. 262142, else the text of the
\* instant cut to the millisecond below it. The text is kept as that
\* millisecond, which it writes out digit by digit.
timestamp_micros(micros) ==
    LET ms == div_euclid(micros, 1000)
        first == i64(TRUE, <<8, 334, 601, 315, 200, 0>>)
        end == i64(FALSE, <<8, 210, 266, 876, 800, 0>>)
        in_range == IF ms.neg THEN ~less_limbs(first.mag, ms.mag)
                    ELSE less_limbs(ms.mag, end.mag)
    IN  IF in_range THEN <<ms>> ELSE INVALID_TIMESTAMP

\* format_timestamp(unit, value): the outcomes of the two builds. The
\* products are plain `*` on i64: where the exact product does not fit,
\* a build with overflow checks panics and a build without them goes on
\* with the wrapped product.
format_timestamp(unit, value) ==
    LET by_1000 == mul_limbs(value.mag, 1000, 0)
        wide == CASE unit = "Second" -> mul_limbs(by_1000, 1000, 0)
                  [] unit = "Millisecond" -> by_1000
                  [] OTHER -> value.mag
        overflow == ~fits_i64(value.neg, wide)
        \* value / 1_000: the quotient truncated toward zero
        q == div_limbs(value.mag, 1000).q
        micros == CASE unit = "Nanosecond" -> [neg |-> value.neg /\ ~is_zero(q), mag |-> q]
                    [] OTHER -> wrap_i64(value.neg, wide)
    IN  IF overflow
        THEN {[panicked |-> TRUE, overflow |-> TRUE, text |-> <<>>],
              [panicked |-> FALSE, overflow |-> TRUE, text |-> timestamp_micros(micros)]}
        ELSE {[panicked |-> FALSE, overflow |-> FALSE, text |-> timestamp_micros(micros)]}

\* Stored values: around the epoch, a present-day instant in each unit,
\* both sides of the largest count of seconds and of milliseconds whose
\* product fits, both sides of the calendar's ends, and the ends of i64.
TimeMagnitudes ==
    { <<>>, <<1>>, <<500>>, <<999>>, <<1, 0>>, <<1, 500>>, <<2, 0>>, <<1, 0, 0>>,
      <<1, 700, 0, 0>>, <<1, 700, 0, 0, 123>>, <<1, 700, 0, 0, 123, 456>>,
      <<1, 700, 0, 0, 123, 456, 789>>,
      <<8, 210, 266, 876, 799>>, <<8, 210, 266, 876, 800>>,
      <<8, 334, 601, 315, 200>>, <<8, 334, 601, 315, 201>>,
      <<9, 223, 372, 36, 854>>, <<9, 223, 372, 36, 855>>,
      <<9, 223, 372, 36, 854, 775>>, <<9, 223, 372, 36, 854, 776>>,
      <<9, 223, 372, 36, 854, 775, 807>> }
TimeValues ==
    {i64(neg, g) : neg \in BOOLEAN, g \in TimeMagnitudes \ {<<>>}}
        \cup {i64(FALSE, <<>>), i64(TRUE, <<9, 223, 372, 36, 854, 775, 808>>)}

\* Display for ValueRef::Timestamp(unit, value) writes format_timestamp.
FormatTimestamp ==
    /\ pc = "format"
    /\ stored # None /\ shown = None
    /\ \E r \in format_timestamp(stored[1].unit, stored[1].value) : shown' = Some(r)
    /\ UNCHANGED <<discoveryVars, parVars, loopVars, pc, phase, info, err, exit_code,
                   view_batches, view_sql, store, view_rows, result_set, tsv, written,
                   stored>>

InitTime ==
    /\ InitAt("format")
    /\ unwalked = {} /\ partials = <<>>
    /\ store = <<>> /\ view_rows = None
    /\ result_set = [columns |-> <<>>, rows |-> <<>>]
    /\ tsv = None /\ written = None
    /\ stored \in {Some([unit |-> u, value |-> v]) :
                        u \in {"Second", "Millisecond", "Microsecond", "Nanosecond"},
                        v \in TimeValues}
    /\ shown = None
NextTime == FormatTimestamp
SpecTime == InitTime /\ [][NextTime]_vars

\* The instant a stored value denotes, exactly and to the millisecond
\* below it: a sign and a magnitude of any length.
ExactMillis(unit, value) ==
    LET floor(v, k) ==
            LET d == div_limbs(v.mag, k)
                q == IF v.neg /\ d.r # 0 THEN mul_limbs(d.q, 1, 1) ELSE d.q \o <<0>>
            IN  [neg |-> v.neg /\ ~is_zero(q), mag |-> q]
    IN  CASE unit = "Second" -> [neg |-> value.neg, mag |-> mul_limbs(value.mag, 1000, 0)]
          [] unit = "Millisecond" -> [neg |-> value.neg, mag |-> value.mag \o <<0>>]
          [] unit = "Microsecond" -> floor(value, 1000)
          [] OTHER -> LET us == floor(value, 1000)
                      IN  floor([neg |-> us.neg, mag |-> SubSeq(us.mag, 1, 4)], 1000)

\* C21: for every unit and every 64-bit value, format_timestamp computes
\* its microseconds without integer overflow and returns either the text
\* of the instant the value denotes, to the millisecond, or
\* INVALID_TIMESTAMP; so values of different units that denote one instant
\* at millisecond precision render the same text.
C21_NoOverflowRightInstant ==
    shown # None =>
        /\ ~shown[1].overflow
        /\ ~shown[1].panicked
        /\ \/ shown[1].text = INVALID_TIMESTAMP
           \/ LET exact == ExactMillis(stored[1].unit, stored[1].value)
              IN  /\ exact.mag[5] = 0
                  /\ shown[1].text = <<[neg |-> exact.neg,
                                              mag |-> SubSeq(exact.mag, 1, 4)]>>

\* ---------------------------------------------------------------------
\* The interactive loop and its multi-line buffer.

\* The line readline returned in this step, if it returned one.
LineRead ==
    IF pc = "repl" /\ Len(input_lines') = Len(input_lines) + 1
    THEN Some(input_lines'[Len(input_lines')])
    ELSE None

\* The step handles its line as a dot-command.
DotCommandStep ==
    /\ LineRead # None
    /\ multiline_buffer = <<>>
    /\ StartsWith(trim(LineRead[1]), <<".">>)

\* The step hands a SQL statement to the facade.
SqlDispatchStep == LineRead # None /\ ~DotCommandStep /\ dispatched' # dispatched

\* The input lines from the k-th on, joined by newlines.
LinesFrom(lines, k) == join(SubSeq(lines, k, Len(lines)), <<"\n">>)

\* A non-empty buffer holds the latest input lines, joined by newlines in
\* input order, and none of them ends in `;`.
C22_BufferInv ==
    (pc = "repl" /\ multiline_buffer # <<>>) =>
        \E k \in 1..Len(input_lines) :
            /\ multiline_buffer = LinesFrom(input_lines, k)
            /\ \A j \in k..Len(input_lines) : ~EndsWith(trim(input_lines[j]), <<";">>)

\* What holds of every step of the loop whatever the dispatched text is.
C22_StepFrame ==
    /\ (prompts' # prompts =>
            /\ Len(prompts') = Len(prompts) + 1
            /\ (prompts'[Len(prompts')] = CONTINUATION_PROMPT <=> multiline_buffer # <<>>)
            /\ (prompts'[Len(prompts')] = PROMPT <=> multiline_buffer = <<>>))
    /\ (SqlDispatchStep =>
            /\ EndsWith(trim(LineRead[1]), <<";">>)
            /\ Len(dispatched') = Len(dispatched) + 1
            /\ multiline_buffer' = <<>>)
    /\ ((LineRead # None /\ ~DotCommandStep /\ ~EndsWith(trim(LineRead[1]), <<";">>)) =>
            /\ dispatched' = dispatched
            /\ multiline_buffer' =
                 IF multiline_buffer # <<>>
                 THEN multiline_buffer \o <<"\n">> \o LineRead[1]
                 ELSE IF trim(LineRead[1]) = <<>> THEN <<>> ELSE LineRead[1])

\* The text of the statement dispatched in this step: the lines accumulated
\* in the buffer and the line just read, joined by newlines; a statement
\* complete on its first line is dispatched as that line trimmed, when
\* `trimmed` says so, and as the line itself otherwise.
DispatchedTextIs(trimmed) ==
    SqlDispatchStep =>
        LET sql == dispatched'[Len(dispatched')].sql
            n == Len(input_lines')
        IN  IF multiline_buffer = <<>>
            THEN sql = (IF trimmed THEN trim(LineRead[1]) ELSE LineRead[1])
            ELSE \E k \in 1..(n - 1) :
                    /\ multiline_buffer = LinesFrom(input_lines, k)
                    /\ sql = LinesFrom(input_lines', k)

\* C22 (amended): a SQL statement is dispatched only at a line whose
\* trimmed text ends with `;`, until then the lines accumulate in the
\* buffer; the continuation prompt is shown iff the buffer is non-empty;
\* the buffer is empty right after each dispatch; a statement of several
\* lines is dispatched as exactly those lines joined by newlines in input
\* order, and a statement complete on its first line is dispatched as that
\* line with its surrounding whitespace trimmed.
C22_DispatchAtSemicolon ==
    [](C22_BufferInv) /\ [][C22_StepFrame /\ DispatchedTextIs(TRUE)]_vars

\* C22 as stated: every dispatched text is exactly the accumulated input
\* lines joined by newlines.
C22_DispatchedVerbatim ==
    [](C22_BufferInv) /\ [][C22_StepFrame /\ DispatchedTextIs(FALSE)]_vars

\* A statement on one line with a trailing blank was dispatched trimmed, a
\* statement of two lines was dispatched with its newline, the continuation
\* prompt was shown once, and the buffer is empty again.
C22_Witness ==
    /\ pc = "repl"
    /\ multiline_buffer = <<>>
    /\ input_lines = << <<"s", ";", " ">>, <<"s">>, <<"s", ";", " ">> >>
    /\ Len(dispatched) = 2
    /\ dispatched[1].sql = <<"s", ";">>
    /\ dispatched[2].sql = <<"s", "\n", "s", ";", " ">>
    /\ prompts = <<PROMPT, PROMPT, CONTINUATION_PROMPT>>

\* A multi-line statement is pending.
Pending == pc = "repl" /\ multiline_buffer # <<>>

\* A line read while a statement is pending is appended to it, whatever it
\* begins with: nothing else is printed, the loop does not end, and only a
\* line ending in `;` has the whole text executed.
C23_PendingLine ==
    (Pending /\ LineRead # None) =>
        LET joined == multiline_buffer \o <<"\n">> \o LineRead[1]
        IN  /\ pc' = "repl"
            /\ IF EndsWith(trim(LineRead[1]), <<";">>)
               THEN /\ Len(dispatched') = Len(dispatched) + 1
                    /\ SubSeq(dispatched', 1, Len(dispatched)) = dispatched
                    /\ dispatched'[Len(dispatched')].sql = joined
                    /\ multiline_buffer' = <<>>
               ELSE /\ dispatched' = dispatched
                    /\ stdout' = stdout
                    /\ stderr' = stderr
                    /\ multiline_buffer' = joined

\* The ways out of the pending state: a line ending in `;`, or readline
\* reporting an interrupt or the end of input, which ends the loop normally
\* with nothing executed; and, when `read_errors` says so, readline failing
\* otherwise, which ends the loop with that error and nothing executed.
C23_Leave(read_errors) ==
    (Pending /\ ~Pending') =>
        \/ LineRead # None /\ EndsWith(trim(LineRead[1]), <<";">>)
        \/ /\ LineRead = None
           /\ pc' = "run_ok"
           /\ dispatched' = dispatched
           /\ stdout' = Append(stdout, Out("goodbye", <<>>))
           /\ err' = err
        \/ /\ read_errors
           /\ LineRead = None
           /\ pc' = "run_failed"
           /\ err' = Some(Readline)
           /\ dispatched' = dispatched
           /\ stdout' = stdout

\* Once the loop has ended nothing is executed any more.
C23_Discarded == pc \in Terminal => dispatched' = dispatched

\* C23 (amended): while a statement is pending, a line beginning with `.`
\* (also .quit, .exit, .q) or an empty line is appended to it and is never
\* taken as a dot-command; the pending state is left only by a line ending
\* in `;`, by interrupt or end of input, where the pending text is dropped
\* unexecuted and the loop returns normally, or by another readline error,
\* where the pending text is dropped unexecuted and the loop returns the
\* error.
C23_PendingIsLeftThreeWays ==
    [][C23_PendingLine /\ C23_Leave(TRUE) /\ C23_Discarded]_vars

\* C23 as stated: a line ending in `;`, interrupt and end of input are the
\* only ways out of the pending state.
C23_PendingIsLeftTwoWays ==
    [][C23_PendingLine /\ C23_Leave(FALSE) /\ C23_Discarded]_vars

\* A statement was begun, an empty line and .q were appended to it, then the
\* input ended: the loop returned normally and nothing was executed.
C23_Witness ==
    /\ pc = "run_ok"
    /\ input_lines = << <<"s">>, <<>>, DOT_Q >>
    /\ multiline_buffer = <<"s", "\n", "\n">> \o DOT_Q
    /\ dispatched = <<>>
    /\ prompts = <<PROMPT, CONTINUATION_PROMPT, CONTINUATION_PROMPT, CONTINUATION_PROMPT>>

\* ---------------------------------------------------------------------
\* The separators of the piped loop.

\* A SQL statement of the batch has completed successfully.
StreamSucceeded(calls) ==
    \E i \in 1..Len(calls) : IsStreamCall(calls[i]) /\ calls[i].failure = "none"

\* The step hands a SQL statement of the batch to query_tsv_streaming.
StreamStep ==
    /\ pc = "piped"
    /\ Len(dispatched') = Len(dispatched) + 1
    /\ IsStreamCall(dispatched'[Len(dispatched')])

IsSeparator(o) == o = Out("separator", <<"---">>)

\* The separator precedes the output of the statement dispatched in this
\* step iff an earlier statement of the batch succeeded, and nothing else
\* of what the step writes is a separator.
C24_Step ==
    /\ StreamStep =>
         LET written_now == SubSeq(stdout', Len(stdout) + 1, Len(stdout'))
         IN  /\ SubSeq(stdout', 1, Len(stdout)) = stdout
             /\ IF StreamSucceeded(dispatched)
                THEN /\ written_now # <<>>
                     /\ IsSeparator(written_now[1])
                     /\ \A j \in 2..Len(written_now) : ~IsSeparator(written_now[j])
                ELSE \A j \in 1..Len(written_now) : ~IsSeparator(written_now[j])
    /\ (pc = "piped" /\ ~StreamStep) =>
         /\ Len(SelectSeq(stdout', IsSeparator)) = Len(SelectSeq(stdout, IsSeparator))
         /\ (StreamSucceeded(dispatched') <=> StreamSucceeded(dispatched))

C25_CountsBoundedAndMonotone ==
    (Discovered /\ pc \in {"connect", "run_failed"}) =>
        \A dir \in WalkRoots :
            LET w == walk_and_count(dir, session_filter)
                unfiltered == walk_and_count(dir, None)
            IN  /\ w[1] + w[2] <= w[3]
                /\ ~\E e \in walked(dir) :
                        /\ file_class(e, session_filter) = "session"
                        /\ file_class(e, session_filter) = "agent"
                /\ w[1] <= unfiltered[1]
                /\ w[2] <= unfiltered[2]
                /\ w[3] = unfiltered[3]

\* Discovery walked a directory with a filter that lets one session and one
\* agent file through and keeps another session out.
C25_Witness ==
    /\ Discovered
    /\ IsSome(session_filter)
    /\ \E dir \in WalkRoots :
        LET w == walk_and_count(dir, session_filter)
            unfiltered == walk_and_count(dir, None)
        IN  /\ w[1] = 1 /\ w[2] = 1 /\ w[3] = 3
            /\ unfiltered[1] = 2

\* ---------------------------------------------------------------------
\* A data directory together with a project path.

\* create was called with both and get_session_files has returned or
\* panicked.
BothSupplied ==
    /\ IsSome(data_dir)
    /\ IsSome(project_path)
    /\ pc \notin {"start", "discover"}

\* C26: with a data directory and a project path, discovery is that of the
\* data directory alone: counts and pattern are what they are without the
\* project path, the project path is not resolved (so a missing home
\* directory is no obstacle), and a NoSessions error names the data
\* directory.
C26_DataDirWins ==
    BothSupplied =>
        /\ pc # "panicked"
        /\ exit_code # Some("PANIC")
        /\ info = Some(get_session_files(None, session_filter, data_dir))
        /\ (info[1].session_count = 0 <=> phase = "Empty")
        /\ (phase = "Empty" => err = Some(NoSessions(PathStr(data_dir[1]))))

\* Both were supplied, the project path begins with a tilde and there is no
\* home directory to resolve it with; the data directory holds only an
\* agent file and the run ended with NoSessions.
C26_Witness ==
    /\ BothSupplied
    /\ home = None
    /\ project_path = Some(W_TILDE)
    /\ phase = "Empty"
    /\ err # None /\ err[1].kind = "NoSessions"
    /\ \E e \in fs : AgentFile(e)
    /\ exit_code = Some("FAILURE")

====
